---- MODULE Spec2Model ----
(***************************************************************************)
(* Model of the parallel command scheduler of dash (src/dgraph.c,          *)
(* src/args.c): the dependency graph of commands, its frontier of runnable *)
(* commands, the expansion of compound commands and continue/break.        *)
(*                                                                         *)
(* Heap objects are records held in sequences and named by their index;    *)
(* 0 is the NULL pointer.  The C functions are operators that take the     *)
(* shared state as a record h and return the state they leave behind.      *)
(***************************************************************************)
EXTENDS Integers, Sequences, FiniteSets, TLC

\* ------------------------------------------------------------------------
\* Bounds of the model.
\* ------------------------------------------------------------------------

\* Largest iteration counter a loop wrapper may reach: the executor reports
\* a loop-continuing test status only below this bound.
MaxIter == 2

\* Number of graph nodes above which no test reports a loop-continuing
\* status any more.
MaxNodes == 8

\* Number of variable states above which create_state is not called.
MaxStates == 4

\* ------------------------------------------------------------------------
\* Command trees (union node of the parser).  A tree is an index into AST.
\* ------------------------------------------------------------------------

NULL == 0

\* Redirection list entry (struct nfile): type NTO / NFROM / NAPPEND ...
Redir(t, f) == [type |-> t, fname |-> f]

Leaf(txt, n, rd) ==
  [type |-> "NCMD", text |-> txt, narg |-> n, redirect |-> rd,
   ch1 |-> NULL, ch2 |-> NULL, ch3 |-> NULL]

\* A simple command with operands: ncmd.args holds the command word txt
\* followed by the words of args.
Args(txt, args, rd) ==
  [type |-> "NCMD", text |-> txt, narg |-> 0, args |-> args, redirect |-> rd,
   ch1 |-> NULL, ch2 |-> NULL, ch3 |-> NULL]

\* for var in args ; do body ; done
For(var, args, body) ==
  [type |-> "NFOR", text |-> "", narg |-> 0, var |-> var, args |-> args,
   redirect |-> <<>>, ch1 |-> NULL, ch2 |-> body, ch3 |-> NULL]

\* A redirection wrapper (struct nredir): nredir.n is the inner command,
\* nredir.redirect the wrapper's own redirections.
Nredir(n, rd) ==
  [type |-> "NREDIR", text |-> "", narg |-> 0, redirect |-> rd,
   ch1 |-> n, ch2 |-> NULL, ch3 |-> NULL]

Bin(t, a, b) ==
  [type |-> t, text |-> "", narg |-> 0, redirect |-> <<>>,
   ch1 |-> a, ch2 |-> b, ch3 |-> NULL]

Tri(t, a, b, c) ==
  [type |-> t, text |-> "", narg |-> 0, redirect |-> <<>>,
   ch1 |-> a, ch2 |-> b, ch3 |-> c]

\* The parsed command trees of all input scripts.
AST ==
  << Leaf("cmd", 0, <<Redir("NTO", "f")>>),                       \*  1: cmd > f
     Leaf("cmd", 0, <<Redir("NFROM", "f"), Redir("NTO", "g")>>),  \*  2: cmd < f > g
     Leaf("cmd", 0, <<Redir("NFROM", "g")>>),                     \*  3: cmd < g
     Leaf("cmd", 0, <<Redir("NFROM", "f")>>),                     \*  4: cmd < f
     Leaf("cmd", 0, <<>>),                                        \*  5: cmd
     Leaf("break", 0, <<>>),                                      \*  6: break
     Leaf("continue", 0, <<>>),                                   \*  7: continue
     Leaf("cmd", 0, <<Redir("NTO", "g")>>),                       \*  8: cmd > g
     Leaf("cmd", 0, <<Redir("NFROM", "f"), Redir("NFROM", "g")>>),\*  9: cmd < f < g
     Tri("NIF", 5, 1, NULL),        \* 10: if cmd; then cmd > f; fi
     Bin("NSEMI", 1, 6),            \* 11: cmd > f ; break
     Bin("NWHILE", 5, 11),          \* 12: while cmd; do cmd > f; break; done
     Bin("NSEMI", 7, 1),            \* 13: continue ; cmd > f
     Bin("NWHILE", 5, 13),          \* 14: while cmd; do continue; cmd > f; done
     Bin("NAND", 5, 1),             \* 15: cmd && cmd > f
     Bin("NSEMI", 1, 2),            \* 16: cmd > f ; cmd < f > g
     Bin("NSEMI", 16, 3),           \* 17: cmd > f ; cmd < f > g ; cmd < g
     Tri("NIF", 5, 7, NULL),        \* 18: if cmd; then continue; fi
     Tri("NIF", 5, 5, NULL),        \* 19: if cmd; then cmd; fi
     Bin("NSEMI", 7, 19),           \* 20: continue ; if cmd; then cmd; fi
     Bin("NSEMI", 18, 20),          \* 21: (18) ; continue ; (19)
     Bin("NWHILE", 5, 21),          \* 22: while cmd; do (21); done
     Bin("NWHILE", 4, 5),           \* 23: while cmd < f; do cmd; done
     Bin("NSEMI", 7, 23),           \* 24: continue ; (23)
     Bin("NSEMI", 1, 24),           \* 25: cmd > f ; continue ; (23)
     Bin("NWHILE", 5, 25),          \* 26: while cmd; do (25); done
     Bin("NSEMI", 8, 9),            \* 27: cmd > g ; cmd < f < g
     Bin("NSEMI", 1, 27),           \* 28: cmd > f ; cmd > g ; cmd < f < g
     Bin("NSEMI", 7, 28),           \* 29: continue ; (28)
     Bin("NWHILE", 5, 29),          \* 30: while cmd; do (29); done
     Leaf("continue", 2, <<>>),     \* 31: continue 2
     Bin("NSEMI", 31, 1),           \* 32: continue 2 ; cmd > f
     Bin("NWHILE", 5, 32),          \* 33: while cmd; do continue 2 ; cmd > f ; done
     Args("cat", <<"a">>, <<Redir("NTO", "b")>>),      \* 34: cat a > b
     Args("cat", <<"b">>, <<Redir("NTO", "c")>>),      \* 35: cat b > c
     Args("cat", <<"a">>, <<Redir("NTO", "d")>>),      \* 36: cat a > d
     Bin("NSEMI", 34, 35),          \* 37: cat a > b ; cat b > c
     Bin("NSEMI", 37, 36),          \* 38: cat a > b ; cat b > c ; cat a > d
     Args("grep", <<"-q", "foo", "a">>, <<>>),         \* 39: grep -q foo a
     Args("cp", <<"a", "b">>, <<>>),                   \* 40: cp a b
     Args("cp", <<"a", "c">>, <<>>),                   \* 41: cp a c
     Tri("NIF", 39, 40, 41),        \* 42: if grep -q foo a; then cp a b; else cp a c; fi
     Args("cat", <<"b">>, <<>>),                       \* 43: cat b
     Bin("NSEMI", 42, 43),          \* 44: (42) ; cat b
     Tri("NIF", 5, 1, 8),           \* 45: if cmd; then cmd > f; else cmd > g; fi
     Bin("NSEMI", 45, 4),           \* 46: (45) ; cmd < f
     Args("true", <<>>, <<>>),      \* 47: true
     Args("echo", <<"step">>, <<>>),\* 48: echo step
     Bin("NSEMI", 48, 6),           \* 49: echo step ; break
     Bin("NWHILE", 47, 49),         \* 50: while true; do echo step ; break ; done
     Args("echo", <<"after">>, <<>>),\* 51: echo after
     Bin("NSEMI", 50, 51),          \* 52: (50) ; echo after
     For("x", <<"a", "b", "c">>, 1),\* 53: for x in a b c; do cmd > f; done
     Bin("NOR", 5, 1),              \* 54: cmd || cmd > f
     Bin("NUNTIL", 5, 1),           \* 55: until cmd; do cmd > f; done
     Bin("NWHILE", 5, 6),           \* 56: while cmd; do break; done
     Bin("NWHILE", 5, 56),          \* 57: while cmd; do while cmd; do break; done; done
     Bin("NSEMI", 18, 6),           \* 58: if cmd; then continue; fi ; break
     Bin("NWHILE", 5, 58),          \* 59: while cmd; do if cmd; then continue; fi ; break; done
     Bin("NAND", 5, 5),             \* 60: cmd && cmd
     Tri("NIF", 60, 1, 8),          \* 61: if cmd && cmd; then cmd > f; else cmd > g; fi
     Leaf("break", 2, <<>>),        \* 62: break 2
     Bin("NWHILE", 5, 62),          \* 63: while cmd; do break 2; done
     Bin("NWHILE", 5, 63),          \* 64: while cmd; do while cmd; do break 2; done; done
     Nredir(5, <<Redir("NTO", "f")>>)\* 65: { cmd; } > f
  >>

NTrees == 65

\* The command trees in memory, as parsecmd built them.
VARIABLE tree

\* A command wrapped by node_wrap_nbackgnd is named n + NTrees.
IsWrap(n) == n > NTrees
Inner(n) == n - NTrees

\* ------------------------------------------------------------------------
\* Footprints (struct dg_file lists).
\* ------------------------------------------------------------------------

NoName == "NULL"

\* Entry for a redirection target.
FileEnt(nm, fl) == [name |-> nm, name_size |-> 0, flag |-> fl]

\* Entry for continue / break: the name is NULL, name_size is the nest.
CtlEnt(fl, nest) == [name |-> NoName, name_size |-> nest, flag |-> fl]

Max(a, b) == IF a > b THEN a ELSE b

\* A faulty dep_cont that does not raise a target below 1 to 1.
dep_cont_unclamped(narg, nest, gnest) ==
  LET cont_arg == IF narg = 0 THEN 1 ELSE narg
  IN  IF cont_arg - nest > 0
      THEN <<CtlEnt("CONTINUE", gnest - cont_arg + 1)>>
      ELSE <<>>

\* continue [N] in a command at tree depth nest of a graph node of nest gnest.
dep_cont(narg, nest, gnest) ==
  LET cont_arg == IF narg = 0 THEN 1 ELSE narg
  IN  IF cont_arg - nest > 0
      THEN <<CtlEnt("CONTINUE", Max(1, gnest - cont_arg + 1))>>
      ELSE <<>>

\* A faulty dep_break that never returns a control entry.
dep_break_no_entry(narg, nest, gnest) == <<>>

dep_break(narg, nest, gnest) ==
  LET break_arg == IF narg = 0 THEN 1 ELSE narg
  IN  IF break_arg - nest > 0
      THEN <<CtlEnt("BREAK", Max(1, gnest - break_arg + 1))>>
      ELSE <<>>

\* A faulty arg_files that takes every continue / break for unburied.
arg_files_depth_blind(n, nest, gnest) ==
  IF tree[n].text = "continue" THEN dep_cont(tree[n].narg, 0, gnest)
  ELSE IF tree[n].text = "break" THEN dep_break(tree[n].narg, 0, gnest)
  ELSE <<>>

\* arg_files: only the command word is inspected.
arg_files(n, nest, gnest) ==
  IF tree[n].text = "continue" THEN dep_cont(tree[n].narg, nest, gnest)
  ELSE IF tree[n].text = "break" THEN dep_break(tree[n].narg, nest, gnest)
  ELSE <<>>

\* dg_file_reg over a whole redirection list: NFROM reads, all others write.
RECURSIVE dg_file_reg(_)
dg_file_reg(rd) ==
  IF rd = <<>> THEN <<>>
  ELSE <<FileEnt(Head(rd).fname,
                 IF Head(rd).type = "NFROM" THEN "READ_ACCESS"
                                            ELSE "WRITE_ACCESS")>>
       \o dg_file_reg(Tail(rd))

RECURSIVE dg_node_files(_, _, _)
dg_node_files(n, nest, gnest) ==
  IF n = NULL THEN <<>>
  ELSE IF IsWrap(n) THEN dg_node_files(Inner(n), nest, gnest)
  ELSE LET t == tree[n] IN
    CASE t.type = "NCMD" ->
           arg_files(n, nest, gnest) \o dg_file_reg(t.redirect)
      [] t.type \in {"NAND", "NOR", "NSEMI"} ->
           dg_node_files(t.ch1, nest, gnest) \o dg_node_files(t.ch2, nest, gnest)
      [] t.type \in {"NWHILE", "NUNTIL"} ->
           dg_node_files(t.ch1, nest + 1, gnest)
             \o dg_node_files(t.ch2, nest + 1, gnest)
      [] t.type = "NIF" ->
           dg_node_files(t.ch1, nest, gnest)
             \o (dg_node_files(t.ch2, nest, gnest)
                   \o dg_node_files(t.ch3, nest, gnest))
      [] t.type = "NNOT" -> dg_node_files(t.ch1, nest, gnest)
      [] OTHER -> <<>>

\* The leaves whose type field arg_files rewrites to NCONT / NBREAK while
\* dg_node_files walks n.
RECURSIVE arg_marks(_)
arg_marks(n) ==
  IF n = NULL THEN {}
  ELSE IF IsWrap(n) THEN arg_marks(Inner(n))
  ELSE LET t == tree[n] IN
    CASE t.type = "NCMD" ->
           IF t.text \in {"continue", "break"} THEN {n} ELSE {}
      [] t.type \in {"NAND", "NOR", "NSEMI", "NWHILE", "NUNTIL"} ->
           arg_marks(t.ch1) \cup arg_marks(t.ch2)
      [] t.type = "NIF" ->
           arg_marks(t.ch1) \cup arg_marks(t.ch2) \cup arg_marks(t.ch3)
      [] t.type = "NNOT" -> arg_marks(t.ch1)
      [] OTHER -> {}

MarkType(n) == IF tree[n].text = "continue" THEN "NCONT" ELSE "NBREAK"

\* ------------------------------------------------------------------------
\* The shared state as one record h:
\*   node      graph nodes (struct dg_node), by index
\*   fn        frontier wrappers (struct dg_fnode), by index
\*   run_list, run_next, tail, eof   struct dg_frontier
\*   ctype     the type field of every command tree
\*   fault     "" or the fault that stopped the process
\*   ub        how a read of freed memory behaves in this operation:
\*             "crash" (the process faults) or "stale" (the old contents
\*             are still there)
\*   bcast     pthread_cond_broadcast was called by this operation
\* A freed object keeps its record with st = "freed".  A dependents list
\* whose cells were freed without clearing the pointer keeps the cells'
\* contents; dlive is the number of leading cells that are still allocated.
\* ------------------------------------------------------------------------

\* The EOF sentinel wrapper, which is never linked into the list.
EOFS == -1

Flt(h, what) == IF h.fault = "" THEN [h EXCEPT !.fault = what] ELSE h

Type(h, n) == IF IsWrap(n) THEN "NBACKGND" ELSE h.ctype[n]

IsLoopType(t) == t \in {"DG_NWHILE", "DG_NUNTIL", "DG_NFOR"}

\* Reading through a pointer to a graph node / a wrapper.
BadNode(h, g) == g = NULL \/ (h.node[g].st = "freed" /\ h.ub = "crash")
BadFn(h, f) == f = NULL \/ f = EOFS \/ (h.fn[f].st = "freed" /\ h.ub = "crash")

\* tmp = node; while (tmp->nest > nest) tmp = tmp->parent->node;
\* The result is NULL when the walk dereferences a bad pointer.
RECURSIVE NestWalk(_, _, _)
NestWalk(h, g, nest) ==
  IF BadNode(h, g) THEN NULL
  ELSE IF h.node[g].nest > nest
       THEN IF BadFn(h, h.node[g].parent) THEN NULL
            ELSE NestWalk(h, h.fn[h.node[g].parent].node, nest)
       ELSE g

\* The inner loop of dg_dep_check: files2 entry e2 against all of files1.
RECURSIVE NameClash(_, _, _)
NameClash(files1, e2, collision) ==
  IF files1 = <<>> THEN collision
  ELSE LET e1 == Head(files1)
           c  == IF e1.name # NoName /\ e2.name # NoName /\ e1.name = e2.name
                 THEN IF e1.flag = "WRITE_ACCESS" \/ e2.flag = "WRITE_ACCESS"
                      THEN "WRITE_COLLISION"
                      ELSE IF collision = "NO_CLASH" THEN "CONCURRENT_READ"
                           ELSE collision
                 ELSE collision
       IN  NameClash(Tail(files1), e2, c)

\* The outer loop of dg_dep_check over files2.
RECURSIVE DepCheckLoop(_, _, _, _, _)
DepCheckLoop(h, node1, node2, files2, collision) ==
  IF files2 = <<>> THEN collision
  ELSE
    LET e2 == Head(files2) IN
    IF e2.name = NoName /\ h.node[node1].nest # 0
         /\ h.node[node1].nest >= e2.name_size
    THEN LET tmp1 == NestWalk(h, node1, e2.name_size)
             tmp2 == NestWalk(h, node2, e2.name_size)
         IN  IF tmp1 = NULL \/ tmp2 = NULL THEN "FAULT"
             ELSE IF (e2.flag = "CONTINUE"
                        /\ h.node[tmp1].iteration = h.node[tmp2].iteration)
                     \/ (e2.flag = "BREAK"
                        /\ h.node[tmp1].iteration >= h.node[tmp2].iteration)
                  THEN DepCheckLoop(h, node1, node2, Tail(files2),
                                    "WRITE_COLLISION")
                  ELSE DepCheckLoop(h, node1, node2, Tail(files2), collision)
    ELSE DepCheckLoop(h, node1, node2, Tail(files2),
                      NameClash(h.node[node1].files, e2, collision))

\* A faulty dg_dep_check that reports a name read on both sides as a write
\* collision.
dg_dep_check_reads_collide(h, node1, node2) ==
  IF BadNode(h, node1) \/ BadNode(h, node2) THEN "FAULT"
  ELSE IF h.ub = "crash" /\ (h.node[node1].ffree \/ h.node[node2].ffree)
       THEN "FAULT"
  ELSE LET r == DepCheckLoop(h, node1, node2, h.node[node2].files, "NO_CLASH")
       IN  IF r = "CONCURRENT_READ" THEN "WRITE_COLLISION" ELSE r

\* Cross check of the file lists; node1 is being added, node2 is in the graph.
dg_dep_check(h, node1, node2) ==
  IF BadNode(h, node1) \/ BadNode(h, node2) THEN "FAULT"
  ELSE IF h.ub = "crash" /\ (h.node[node1].ffree \/ h.node[node2].ffree)
       THEN "FAULT"
  ELSE DepCheckLoop(h, node1, node2, h.node[node2].files, "NO_CLASH")

\* A dependents list is read safely when every cell of it is allocated.
DanglingDeps(h, g) ==
  h.ub = "crash" /\ h.node[g].dlive < Len(h.node[g].dependents)

\* dg_dep_create + link at the end of node's list.
AppendDep(h, node, new_node) ==
  [h EXCEPT !.node[node].dependents = Append(@, new_node),
            !.node[node].dlive =
               IF @ = Len(h.node[node].dependents) THEN @ + 1 ELSE @]

\* Sequencing.  CHOOSE val \in {e : x \in {v}} : TRUE is the value of e with
\* x naming the value of v.  The statements of a function are threaded
\* through the state in this way, so that the state a call leaves is
\* computed once, however often the statements after it read it.

\* dg_dep_add returns the state and the number of dependencies added;
\* depth counts the recursion, which does not end on a cyclic graph.
RECURSIVE dg_dep_add(_, _, _, _), DepAddLoop(_, _, _, _, _, _)
DepAddLoop(h, new_node, node, i, deps, depth) ==
  IF h.fault # "" THEN [h |-> h, deps |-> 0, ret0 |-> TRUE]
  ELSE IF i > Len(h.node[node].dependents)
       THEN [h |-> h, deps |-> deps, ret0 |-> FALSE]
  ELSE IF h.node[node].dependents[i] = new_node
       THEN [h |-> h, deps |-> 0, ret0 |-> TRUE]
  ELSE CHOOSE val \in
         { DepAddLoop(r.h, new_node, node, i + 1, deps + r.deps, depth) :
             r \in {dg_dep_add(h, new_node, h.node[node].dependents[i],
                               depth + 1)} } : TRUE

\* A faulty dg_dep_add that appends new_node behind every node it clashes
\* with, a concurrent read included, and does not descend.
dg_dep_add_on_read(h, new_node, node, depth) ==
  IF h.fault # "" THEN [h |-> h, deps |-> 0]
  ELSE IF dg_dep_check(h, new_node, node) \in {"FAULT", "NO_CLASH"}
       THEN [h |-> h, deps |-> 0]
  ELSE IF \E i \in 1..Len(h.node[node].dependents) :
            h.node[node].dependents[i] = new_node
       THEN [h |-> h, deps |-> 0]
  ELSE [h |-> AppendDep(h, node, new_node), deps |-> 1]

dg_dep_add(h, new_node, node, depth) ==
  IF h.fault # "" THEN [h |-> h, deps |-> 0]
  ELSE IF depth > Len(h.node) THEN [h |-> Flt(h, "stack overflow"), deps |-> 0]
  ELSE
    LET file_access == dg_dep_check(h, new_node, node) IN
    IF file_access = "FAULT"
    THEN [h |-> Flt(h, "use after free"), deps |-> 0]
    ELSE IF file_access = "NO_CLASH" THEN [h |-> h, deps |-> 0]
    ELSE IF DanglingDeps(h, node)
         THEN [h |-> Flt(h, "use after free"), deps |-> 0]
    ELSE IF h.node[node].dependents # <<>>
         THEN CHOOSE val \in
                { IF r.ret0 THEN [h |-> r.h, deps |-> 0]
                  ELSE IF r.deps = 0 /\ file_access = "WRITE_COLLISION"
                       THEN [h |-> AppendDep(r.h, node, new_node),
                             deps |-> r.deps + 1]
                       ELSE [h |-> r.h, deps |-> r.deps] :
                    r \in {DepAddLoop(h, new_node, node, 1, 0, depth)} } : TRUE
         ELSE IF file_access = "WRITE_COLLISION"
              THEN [h |-> AppendDep(h, node, new_node), deps |-> 1]
              ELSE [h |-> h, deps |-> 0]

\* ------------------------------------------------------------------------
\* Command lists (node_list) and graph node creation.
\* ------------------------------------------------------------------------

\* node_proc_ncmd: wrap with NBACKGND unless the command is cd or exit.
node_proc_ncmd(n) == IF tree[n].text \in {"cd", "exit"} THEN n ELSE n + NTrees

\* node_list with the two sides of a ; in the wrong order.
RECURSIVE node_list_rev(_, _)
node_list_rev(h, n) ==
  IF n = NULL THEN <<>>
  ELSE CASE Type(h, n) = "NCMD" -> <<node_proc_ncmd(n)>>
         [] Type(h, n) = "NSEMI" ->
              node_list_rev(h, tree[n].ch2) \o node_list_rev(h, tree[n].ch1)
         [] OTHER -> <<n>>

\* Flatten a ;-tree into the list of commands to schedule.
RECURSIVE node_list(_, _)
node_list(h, n) ==
  IF n = NULL THEN <<>>
  ELSE CASE Type(h, n) = "NCMD" -> <<node_proc_ncmd(n)>>
         [] Type(h, n) = "NSEMI" ->
              node_list(h, tree[n].ch1) \o node_list(h, tree[n].ch2)
         [] OTHER -> <<n>>

\* node_proc: the top-level commands handed to dg_graph_add for one parsed
\* tree, in order.
RECURSIVE node_proc(_)
node_proc(n) ==
  IF n = NULL THEN <<>>
  ELSE CASE tree[n].type = "NCMD" -> <<node_proc_ncmd(n)>>
         [] tree[n].type = "NSEMI" ->
              node_proc(tree[n].ch1) \o node_proc(tree[n].ch2)
         [] OTHER -> <<n>>

\* malloc of a graph node; files0, flag0 and enq are history fields of the
\* model: the footprint and the flags at creation and the number of times
\* the node was enqueued.
dg_node_create(h, new_cmd, flag, parent) ==
  LET ploop == parent # NULL /\ IsLoopType(h.fn[parent].type)
      nest == IF parent = NULL THEN 0
              ELSE IF ploop THEN h.node[h.fn[parent].node].nest + 1
              ELSE h.node[h.fn[parent].node].nest
      iteration == IF ploop THEN h.fn[parent].iteration ELSE 0
      files == dg_node_files(new_cmd, 0, nest)
      marks == arg_marks(new_cmd)
      rec == [st |-> "live", dependents |-> <<>>, dlive |-> 0,
              files |-> files, ffree |-> FALSE, dependencies |-> 0,
              command |-> new_cmd, parent |-> parent, nest |-> nest,
              iteration |-> iteration, flag |-> flag,
              files0 |-> files, flag0 |-> flag, enq |-> 0]
  IN  [h EXCEPT !.node = Append(@, rec),
                !.ctype = [k \in DOMAIN @ |->
                             IF k \in marks THEN MarkType(k) ELSE @[k]]]

\* free_files / free_deps on a pointer that was freed before and not
\* cleared is a double free.
DoubleFreeFiles(h, g) == h.ub = "crash" /\ h.node[g].ffree
DoubleFreeDeps(h, g) ==
  h.ub = "crash" /\ h.node[g].dlive < Len(h.node[g].dependents)

\* ------------------------------------------------------------------------
\* Graph and frontier operations.
\* ------------------------------------------------------------------------

RECURSIVE dg_graph_add_node(_, _, _, _), AddNodeLoop(_, _, _),
          dg_frontier_add(_, _), dg_frontier_node_proc(_, _),
          dg_frontier_expand(_, _, _, _), ExpandLoop(_, _, _, _, _),
          dg_frontier_dep_recheck(_, _, _), RecheckLoop(_, _, _, _),
          dg_frontier_parent_proc(_, _), dg_frontier_remove(_, _),
          dg_graph_remove(_, _), RemoveLoop(_, _, _),
          dg_cont(_, _, _, _, _), dg_break(_, _, _, _, _),
          dg_cancel_loop(_, _, _, _, _, _),
          CancelLoop(_, _, _, _, _, _, _, _, _),
          dg_cancel_cmd(_, _, _, _, _, _)

AddNodeLoop(h, new_node, iter) ==
  IF h.fault # "" THEN h
  ELSE IF iter = NULL
       THEN IF h.node[new_node].dependencies = 0
            THEN dg_frontier_add(h, new_node)
            ELSE h
  ELSE IF BadFn(h, iter) THEN Flt(h, "use after free")
  ELSE CHOOSE val \in
         { IF r.h.fault # "" THEN r.h
           \* If we hit a loop, and we depend on it, stop here.
           ELSE IF IsLoopType(r.h.fn[iter].type) /\ r.deps # 0 THEN r.h
           ELSE AddNodeLoop(r.h, new_node, r.h.fn[iter].next) :
             r \in { [h |-> IF q.h.fault # "" THEN q.h
                            ELSE [q.h EXCEPT !.node[new_node].dependencies =
                                                @ + q.deps],
                      deps |-> q.deps] :
                       q \in {dg_dep_add(h, new_node, h.fn[iter].node, 0)} }
         } : TRUE

dg_graph_add_node(h, new_node, frontier_node, new) ==
  IF h.fault # "" THEN h
  ELSE LET parent == h.node[new_node].parent IN
       CHOOSE val \in
         { AddNodeLoop(h1, new_node, frontier_node) :
             h1 \in {IF new /\ parent # NULL
                     THEN [h EXCEPT !.fn[parent].active = @ + 1]
                     ELSE h} } : TRUE

\* Add a node to frontier.  run and did are history fields of the model:
\* the number of times dg_graph_run has stood on the wrapper and moved on,
\* and the steps of dg_frontier_remove taken on it.
dg_frontier_add(h, graph_node) ==
  IF h.fault # "" THEN h
  ELSE
    LET f   == Len(h.fn) + 1
        rec == [st |-> "live", type |-> "DG_NCMD", node |-> graph_node,
                next |-> NULL, prev |-> h.tail, status |-> 0, active |-> 0,
                iteration |-> 0, run |-> 0, did |-> <<>>]
        h0  == [h EXCEPT !.fn = Append(@, rec),
                         !.node[graph_node].enq = @ + 1]
    IN  CHOOSE val \in
          { IF h2.fault # "" THEN h2 ELSE [h2 EXCEPT !.bcast = TRUE] :
              h2 \in { dg_frontier_node_proc(h1, f) :
                         h1 \in {IF h.tail # NULL
                                 THEN [h0 EXCEPT !.fn[h.tail].next = f,
                                                 !.tail = f,
                                                 !.run_next =
                                                    IF @ = NULL THEN f ELSE @]
                                 ELSE [h0 EXCEPT !.run_list = f,
                                                 !.run_next = f,
                                                 !.tail = f]} } } : TRUE

ExpandLoop(h, parent, commands, i, flag) ==
  IF h.fault # "" THEN h
  ELSE IF i < Len(commands)
  THEN CHOOSE val \in
         { ExpandLoop(h2, parent, commands, i + 1, flag) :
             h2 \in { dg_graph_add_node(h1, Len(h1.node), parent, TRUE) :
                        h1 \in {dg_node_create(h, commands[i], {flag},
                                               parent)} } } : TRUE
  ELSE LET last_flag == IF flag = "TEST_CMD" THEN {"TEST_STATUS"}
                        ELSE IF flag = "BODY_CMD" THEN {"BODY_STATUS"}
                        ELSE {}
       IN  CHOOSE val \in
             { dg_graph_add_node(h1, Len(h1.node), parent, TRUE) :
                 h1 \in {dg_node_create(h, commands[i], last_flag,
                                        parent)} } : TRUE

dg_frontier_expand(h, parent, n, flag) ==
  IF h.fault # "" \/ n = NULL THEN h
  ELSE CHOOSE val \in
         { ExpandLoop(h, parent, commands, 1, flag) :
             commands \in {node_list(h, n)} } : TRUE

RecheckLoop(h, deps, i, check_start) ==
  IF h.fault # "" \/ i > Len(deps) THEN h
  ELSE IF BadNode(h, deps[i]) THEN Flt(h, "use after free")
  ELSE CHOOSE val \in
         { RecheckLoop(h2, deps, i + 1, check_start) :
             h2 \in { dg_graph_add_node(h1, deps[i], check_start, FALSE) :
                        h1 \in {[h EXCEPT !.node[deps[i]].dependencies =
                                             @ - 1]} } } : TRUE

dg_frontier_dep_recheck(h, parent, check_start) ==
  IF h.fault # "" THEN h
  ELSE LET g == h.fn[parent].node IN
       IF DanglingDeps(h, g) THEN Flt(h, "use after free")
       ELSE CHOOSE val \in
              { RecheckLoop(h1, h.node[g].dependents, 1, check_start) :
                  h1 \in {[h EXCEPT !.node[g].dependents = <<>>,
                                    !.node[g].dlive = 0]} } : TRUE

\* free_files (node->files); node->files = NULL;
ClearFiles(h, g) ==
  IF DoubleFreeFiles(h, g) THEN Flt(h, "double free")
  ELSE [h EXCEPT !.node[g].files = <<>>, !.node[g].ffree = FALSE]

\* The graph node's files, dependents and their allocation marks.
Saved(h, g) ==
  [files |-> h.node[g].files, ffree |-> h.node[g].ffree,
   dependents |-> h.node[g].dependents, dlive |-> h.node[g].dlive]

\* node->files = NULL; node->dependents = NULL;
Detach(h, g) ==
  [h EXCEPT !.node[g].files = <<>>, !.node[g].ffree = FALSE,
            !.node[g].dependents = <<>>, !.node[g].dlive = 0]

\* A faulty restore that puts back the footprint and drops the dependents.
Restore_files_only(h, g, saved) ==
  IF h.fault # "" THEN h
  ELSE [h EXCEPT !.node[g].files = saved.files,
                 !.node[g].ffree = saved.ffree]

\* node->files = saved_files; node->dependents = saved_deps;
Restore(h, g, saved) ==
  IF h.fault # "" THEN h
  ELSE [h EXCEPT !.node[g].files = saved.files,
                 !.node[g].ffree = saved.ffree,
                 !.node[g].dependents = saved.dependents,
                 !.node[g].dlive = saved.dlive]

\* The type a wrapper takes from its command.
DgType(t) ==
  IF t = "NAND" THEN "DG_NAND"
  ELSE IF t = "NOR" THEN "DG_NOR"
  ELSE IF t = "NIF" THEN "DG_NIF"
  ELSE IF t = "NWHILE" THEN "DG_NWHILE"
  ELSE IF t = "NUNTIL" THEN "DG_NUNTIL"
  ELSE "DG_NCMD"

\* The footprint an && / || / if wrapper keeps: its body's.
BodyFiles(command, t, nest) ==
  dg_node_files(tree[command].ch2, 0, nest)
    \o (IF t = "NIF"
        THEN dg_node_files(tree[command].ch3, 0, nest)
        ELSE <<>>)

dg_frontier_node_proc(h, frontier_node) ==
  LET g == h.fn[frontier_node].node
      command == h.node[g].command
      t == Type(h, command)
  IN
  IF t \in {"NAND", "NOR", "NIF"}
  THEN CHOOSE val \in
         { dg_frontier_dep_recheck(h3, frontier_node, frontier_node) :
             h3 \in { [h2 EXCEPT !.node[g].files =
                                   BodyFiles(command, t, h2.node[g].nest)] :
                        h2 \in { dg_frontier_expand(h1, frontier_node,
                                                    tree[command].ch1,
                                                    "TEST_CMD") :
                                   h1 \in {[ClearFiles(h, g) EXCEPT
                                              !.fn[frontier_node].type =
                                                 DgType(t)]} } } } : TRUE
  ELSE IF t \in {"NWHILE", "NUNTIL"}
  THEN CHOOSE val \in
         { Restore(h2, g, Saved(h, g)) :
             h2 \in { dg_frontier_expand(h1, frontier_node,
                                         tree[command].ch1, "TEST_CMD") :
                        h1 \in {[Detach(h, g) EXCEPT
                                   !.fn[frontier_node].type = DgType(t)]} }
         } : TRUE
  ELSE [h EXCEPT !.fn[frontier_node].type = "DG_NCMD"]

\* Add the NEOF node: only run_next is set, the list itself is not touched.
dg_frontier_add_eof(h) ==
  [h EXCEPT !.run_next = EOFS, !.bcast = TRUE, !.neof = @ + 1]

\* A faulty decision that treats until as while.
LoopGoesOn_until_as_while(type, status) ==
  status = 0 /\ type \in {"DG_NWHILE", "DG_NUNTIL"}

\* The branch decision of a loop wrapper on its test status.
LoopGoesOn(type, status) ==
  (status = 0 /\ type = "DG_NWHILE") \/ (status # 0 /\ type = "DG_NUNTIL")

\* A faulty decision that treats || as &&.
BinaryGoesOn_or_as_and(type, status) ==
  status = 0 /\ type \in {"DG_NAND", "DG_NOR"}

\* The branch decision of && and ||.
BinaryGoesOn(type, status) ==
  (status = 0 /\ type = "DG_NAND") \/ (status # 0 /\ type = "DG_NOR")

\* The tail of dg_frontier_parent_proc for a child flagged TEST_STATUS.
TestStatusProc(h2, parent, status) ==
  LET pg == h2.fn[parent].node
      pcmd == h2.node[pg].command
      ptype == h2.fn[parent].type
      expand == IF ptype = "DG_NIF"
                THEN IF status = 0 THEN tree[pcmd].ch2 ELSE tree[pcmd].ch3
                ELSE IF BinaryGoesOn(ptype, status) THEN tree[pcmd].ch2
                ELSE NULL
  IN
  IF ptype \in {"DG_NAND", "DG_NOR", "DG_NIF"}
  THEN CHOOSE val \in
         { IF h5.fault # "" THEN h5
           ELSE [h5 EXCEPT !.fn[parent].type = "DG_NCMD"] :
             h5 \in { dg_frontier_dep_recheck(h4, parent, parent) :
                        h4 \in { dg_frontier_expand(h3, parent, expand,
                                                    "BODY_CMD") :
                                   h3 \in {ClearFiles(h2, pg)} } } } : TRUE
  ELSE IF ptype \in {"DG_NWHILE", "DG_NUNTIL"}
  THEN IF LoopGoesOn(ptype, status)
       THEN CHOOSE val \in
              { Restore(h6, pg, Saved(h2, pg)) :
                  h6 \in { dg_frontier_expand(h5, parent, tree[pcmd].ch1,
                                              "TEST_CMD") :
                    h5 \in { IF h4.fault # "" THEN h4
                             ELSE [h4 EXCEPT !.fn[parent].iteration = @ + 1] :
                      h4 \in { dg_frontier_expand(h3, parent, tree[pcmd].ch2,
                                                  "BODY_CMD") :
                                 h3 \in {Detach(h2, pg)} } } } } : TRUE
       ELSE IF h2.ub = "crash" /\ h2.node[pg].ffree
            THEN Flt(Detach(h2, pg), "double free")
       ELSE CHOOSE val \in
              { IF h5.fault # "" THEN h5
                ELSE [h5 EXCEPT !.fn[parent].type = "DG_NCMD"] :
                  h5 \in { dg_frontier_dep_recheck(h4, parent, parent) :
                    h4 \in {[Detach(h2, pg) EXCEPT
                               !.node[pg].dependents = h2.node[pg].dependents,
                               !.node[pg].dlive = h2.node[pg].dlive]} } }
              : TRUE
  ELSE [h2 EXCEPT !.fn[parent].status = status]

\* A faulty dg_frontier_parent_proc that makes the branch decision for
\* every child, whether or not the child is flagged TEST_STATUS.
dg_frontier_parent_proc_any_child(h, rem) ==
  LET g == h.fn[rem].node
      parent == IF BadNode(h, g) THEN NULL ELSE h.node[g].parent
  IN
  IF h.fault # "" THEN h
  ELSE IF BadNode(h, g) THEN Flt(h, "use after free")
  ELSE IF parent = NULL THEN h
  ELSE IF BadFn(h, parent) THEN Flt(h, "use after free")
  ELSE TestStatusProc(h, parent, h.fn[rem].status)

\* Process parent node based on return status.
dg_frontier_parent_proc(h, rem) ==
  LET g == h.fn[rem].node
      parent == IF BadNode(h, g) THEN NULL ELSE h.node[g].parent
      h1 == IF Type(h, h.node[g].command) = "NNOT"
            THEN [h EXCEPT !.fn[rem].status = IF @ = 0 THEN 1 ELSE 0]
            ELSE h
  IN
  IF h.fault # "" THEN h
  ELSE IF BadNode(h, g) THEN Flt(h, "use after free")
  ELSE IF parent = NULL THEN h
  ELSE IF BadFn(h, parent) THEN Flt(h, "use after free")
  ELSE CHOOSE val \in
         { IF "TEST_STATUS" \notin h2.node[g].flag THEN h2
           ELSE TestStatusProc(h2, parent, h2.fn[rem].status) :
             h2 \in {IF "BODY_STATUS" \in h1.node[g].flag
                        /\ h1.node[g].iteration = h1.fn[parent].iteration
                     THEN [h1 EXCEPT !.fn[parent].status = h1.fn[rem].status]
                     ELSE h1} } : TRUE

\* Unlink rem from run_list.
Unlink(h1, rem) ==
  LET prev == h1.fn[rem].prev
      next == h1.fn[rem].next
      h2 == IF prev # NULL
            THEN IF next # NULL
                 THEN [h1 EXCEPT !.fn[prev].next = next,
                                 !.fn[next].prev = prev]
                 ELSE [h1 EXCEPT !.fn[prev].next = next]
            ELSE IF next # NULL
                 THEN [h1 EXCEPT !.run_list = next, !.fn[next].prev = NULL]
                 ELSE [h1 EXCEPT !.run_list = next]
  IN  IF h1.tail = rem THEN [h2 EXCEPT !.tail = prev] ELSE h2

\* The history field did of a wrapper: the steps dg_frontier_remove has
\* taken on it so far, in order.
Did(h, rem, step) ==
  IF h.fault # "" THEN h ELSE [h EXCEPT !.fn[rem].did = Append(@, step)]

\* A faulty dg_frontier_remove that tests for the EOF sentinel as soon as
\* the wrapper is unlinked, before the graph node is removed.
dg_frontier_remove_eof_early(h, rem) ==
  IF h.fault # "" THEN h
  ELSE IF BadFn(h, rem) THEN Flt(h, "use after free")
  ELSE CHOOSE val \in
         { IF h5.fault # "" THEN h5
           ELSE [h5 EXCEPT !.fn[rem].st = "freed"] :
             h5 \in { dg_graph_remove(Did(h4, rem, "graph_remove"),
                                      h4.fn[rem].node) :
               h4 \in { IF h3.fault # "" THEN h3
                        ELSE IF h3.run_list = NULL /\ h3.eof = 1
                             THEN dg_frontier_add_eof(Did(h3, rem, "eof_test"))
                             ELSE Did(h3, rem, "eof_test") :
                 h3 \in { IF h1.fault # "" THEN h1
                          ELSE Unlink(Did(h1, rem, "unlink"), rem) :
                   h1 \in {dg_frontier_parent_proc(
                              Did(h, rem, "parent_proc"), rem)} } } } } : TRUE

\* Unlink rem from the list, remove its graph node, free it.
dg_frontier_remove(h, rem) ==
  IF h.fault # "" THEN h
  ELSE IF BadFn(h, rem) THEN Flt(h, "use after free")
  ELSE CHOOSE val \in
         { IF h5.fault # "" THEN h5
           ELSE IF h5.run_list = NULL /\ h5.eof = 1
                THEN dg_frontier_add_eof(Did(h5, rem, "eof_test"))
                ELSE Did(h5, rem, "eof_test") :
             h5 \in { IF h4.fault # "" THEN h4
                      ELSE [h4 EXCEPT !.fn[rem].st = "freed"] :
               h4 \in { dg_graph_remove(Did(h3, rem, "graph_remove"),
                                        h3.fn[rem].node) :
                 h3 \in { IF h1.fault # "" THEN h1
                          ELSE Unlink(Did(h1, rem, "unlink"), rem) :
                   h1 \in {dg_frontier_parent_proc(
                              Did(h, rem, "parent_proc"), rem)} } } } } : TRUE

\* Step through the dependents of a finished command.
RemoveLoop(h, g, i) ==
  IF h.fault # "" \/ i > Len(h.node[g].dependents) THEN h
  ELSE LET d == h.node[g].dependents[i] IN
       IF BadNode(h, d) THEN Flt(h, "use after free")
       ELSE CHOOSE val \in
              { RemoveLoop(h2, g, i + 1) :
                  h2 \in { IF h1.node[d].dependencies = 0
                           THEN dg_frontier_add(h1, d)
                           ELSE h1 :
                    h1 \in {[h EXCEPT !.node[d].dependencies = @ - 1]} } }
              : TRUE

\* The first footprint entry with a NULL name, or 0.
RECURSIVE FirstCtl(_, _)
FirstCtl(files, i) ==
  IF i > Len(files) THEN 0
  ELSE IF files[i].name = NoName THEN i
  ELSE FirstCtl(files, i + 1)

\* The NCONT/NBREAK branch of dg_graph_remove.
RemoveCtl(h, graph_node, t) ==
  LET parent == h.node[graph_node].parent
      fi == FirstCtl(h.node[graph_node].files, 1)
      file == h.node[graph_node].files[fi]
  IN
  IF parent = NULL THEN Flt(h, "null parent")
  ELSE IF BadFn(h, parent) THEN Flt(h, "use after free")
  ELSE IF h.ub = "crash" /\ h.node[graph_node].ffree
       THEN Flt(h, "use after free")
  ELSE CHOOSE val \in
         { IF fi = 0 THEN ha
           ELSE IF NestWalk(ha, graph_node, file.name_size) = NULL
                THEN Flt(ha, "use after free")
           ELSE IF t = "NCONT"
                THEN dg_cont(ha, graph_node,
                             ha.node[NestWalk(ha, graph_node,
                                              file.name_size)].iteration,
                             file.name_size, 0)
                ELSE dg_break(ha, graph_node,
                              ha.node[NestWalk(ha, graph_node,
                                               file.name_size)].iteration,
                              file.name_size, 0) :
             ha \in {[h EXCEPT !.fn[parent].status = 0]} } : TRUE

\* free_deps, free_files and free of the removed node.
FreeNode(h2, graph_node) ==
  IF h2.fault # "" THEN h2
  ELSE IF DoubleFreeDeps(h2, graph_node)
            \/ DoubleFreeFiles(h2, graph_node)
            \/ BadNode(h2, graph_node)
       THEN Flt(h2, "double free")
  ELSE [h2 EXCEPT !.node[graph_node].st = "freed"]

dg_graph_remove(h, graph_node) ==
  IF h.fault # "" THEN h
  ELSE IF BadNode(h, graph_node) THEN Flt(h, "use after free")
  ELSE
    LET t == Type(h, h.node[graph_node].command)
        parent == h.node[graph_node].parent
    IN
    CHOOSE val \in
      { FreeNode(h2, graph_node) :
          h2 \in { IF hb.fault # "" \/ parent = NULL THEN hb
                   ELSE IF hb.fn[parent].active = 0
                        THEN dg_frontier_remove(hb, parent)
                        ELSE hb :
            hb \in { IF h1.fault # "" \/ parent = NULL THEN h1
                     ELSE IF BadFn(h1, parent) THEN Flt(h1, "use after free")
                     ELSE [h1 EXCEPT !.fn[parent].active = @ - 1] :
              h1 \in { IF t \in {"NCONT", "NBREAK"}
                       THEN RemoveCtl(h, graph_node, t)
                       ELSE IF DanglingDeps(h, graph_node)
                            THEN Flt(h, "use after free")
                            ELSE RemoveLoop(h, graph_node, 1) } } } } : TRUE

\* ------------------------------------------------------------------------
\* continue and break.
\* ------------------------------------------------------------------------

dg_cont(h, cont_node, iteration, nest, depth) ==
  IF h.fault # "" THEN h
  ELSE IF BadNode(h, cont_node) THEN Flt(h, "use after free")
  ELSE IF depth > Len(h.node) THEN Flt(h, "stack overflow")
  ELSE CHOOSE val \in
         { IF h1.fault # "" \/ h1.node[cont_node].parent = NULL THEN h1
           ELSE IF BadFn(h1, h1.node[cont_node].parent)
                THEN Flt(h1, "use after free")
           ELSE dg_cont(h1, h1.fn[h1.node[cont_node].parent].node, iteration,
                        nest, depth + 1) :
             h1 \in {dg_cancel_loop(h, cont_node, iteration, nest, "NCONT",
                                    0)} } : TRUE

\* A faulty dg_break that leaves the kind of the parent wrapper alone.
dg_break_kind_kept(h, break_node, iteration, nest, depth) ==
  IF h.fault # "" THEN h
  ELSE IF BadNode(h, break_node) THEN Flt(h, "use after free")
  ELSE IF depth > Len(h.node) THEN Flt(h, "stack overflow")
  ELSE CHOOSE val \in
         { IF h1.fault # "" \/ h1.node[break_node].parent = NULL THEN h1
           ELSE IF BadFn(h1, h1.node[break_node].parent)
                THEN Flt(h1, "use after free")
           ELSE dg_break(h1, h1.fn[h1.node[break_node].parent].node,
                         iteration, nest, depth + 1) :
             h1 \in {dg_cancel_loop(h, break_node, iteration, nest,
                                    "NBREAK", 0)} } : TRUE

dg_break(h, break_node, iteration, nest, depth) ==
  IF h.fault # "" THEN h
  ELSE IF BadNode(h, break_node) THEN Flt(h, "use after free")
  ELSE IF depth > Len(h.node) THEN Flt(h, "stack overflow")
  ELSE CHOOSE val \in
         { IF h2.fault # "" \/ h2.node[break_node].parent = NULL THEN h2
           ELSE dg_break(h2, h2.fn[h2.node[break_node].parent].node,
                         iteration, nest, depth + 1) :
             h2 \in { IF h1.fault # "" \/ h1.node[break_node].parent = NULL
                      THEN h1
                      ELSE IF BadFn(h1, h1.node[break_node].parent)
                           THEN Flt(h1, "use after free")
                      ELSE IF IsLoopType(
                                h1.fn[h1.node[break_node].parent].type)
                           THEN [h1 EXCEPT
                                   !.fn[h1.node[break_node].parent].type =
                                      "DG_NCMD"]
                           ELSE h1 :
               h1 \in {dg_cancel_loop(h, break_node, iteration, nest,
                                      "NBREAK", 0)} } } : TRUE

\* The loop of dg_cancel_loop over the cells deps[i..]; save_iter is the
\* index of the last cell kept so far (0: none).
CancelLoop(h, graph_node, deps, i, save_iter, iteration, nest, cancel_type, depth) ==
  IF h.fault # "" THEN h
  ELSE IF i > Len(deps)
  THEN \* graph_node->dependents = save_iter: the list now starts at the
       \* last kept cell, whose next pointer still leads to the freed cells
       \* that followed it.
       IF save_iter = 0
       THEN [h EXCEPT !.node[graph_node].dependents = <<>>,
                      !.node[graph_node].dlive = 0]
       ELSE [h EXCEPT !.node[graph_node].dependents =
                         SubSeq(deps, save_iter, Len(deps)),
                      !.node[graph_node].dlive = 1]
  ELSE LET tmp_node == NestWalk(h, deps[i], nest) IN
       IF tmp_node = NULL THEN Flt(h, "use after free")
       ELSE IF h.node[tmp_node].nest = nest
               /\ ((cancel_type = "NCONT"
                      /\ h.node[tmp_node].iteration = iteration)
                   \/ (cancel_type = "NBREAK"
                      /\ h.node[tmp_node].iteration >= iteration))
            THEN CHOOSE val \in
                   { CancelLoop(h1, graph_node, deps, i + 1, save_iter,
                                iteration, nest, cancel_type, depth) :
                       h1 \in {dg_cancel_cmd(h, deps[i], iteration, nest,
                                             cancel_type, depth + 1)} } : TRUE
            ELSE CancelLoop(h, graph_node, deps, i + 1, i, iteration, nest,
                            cancel_type, depth)

\* Cancel a command's dependents.
dg_cancel_loop(h, graph_node, iteration, nest, cancel_type, depth) ==
  IF h.fault # "" THEN h
  ELSE IF BadNode(h, graph_node) \/ DanglingDeps(h, graph_node)
       THEN Flt(h, "use after free")
  ELSE IF depth > Len(h.node) THEN Flt(h, "stack overflow")
  ELSE CancelLoop(h, graph_node, h.node[graph_node].dependents, 1, 0,
                  iteration, nest, cancel_type, depth)

\* A faulty dg_cancel_cmd that does not cancel the dependents of the
\* command it cancels.
dg_cancel_cmd_no_descent(h, graph_node, iteration, nest, cancel_type, depth) ==
  IF h.fault # "" THEN h
  ELSE IF h.node[graph_node].dependencies = 1
       THEN dg_graph_remove([h EXCEPT !.node[graph_node].dependencies = 0],
                            graph_node)
  ELSE [h EXCEPT !.node[graph_node].dependencies = @ - 1,
                 !.node[graph_node].flag = {"CANCELLED"},
                 !.node[graph_node].dlive = 0,
                 !.node[graph_node].ffree = (h.node[graph_node].files # <<>>)]

\* Cancel a command.
dg_cancel_cmd(h, graph_node, iteration, nest, cancel_type, depth) ==
  CHOOSE val \in
    { IF h2.fault # "" THEN h2
      ELSE IF h2.node[graph_node].dependencies = 0
           THEN dg_graph_remove(h2, graph_node)
      ELSE IF DoubleFreeDeps(h2, graph_node)
                \/ DoubleFreeFiles(h2, graph_node)
           THEN Flt(h2, "double free")
      ELSE [h2 EXCEPT !.node[graph_node].flag = {"CANCELLED"},
                      !.node[graph_node].dlive = 0,
                      !.node[graph_node].ffree =
                         (h2.node[graph_node].files # <<>>)] :
        h2 \in { IF h1.fault # "" THEN h1
                 ELSE [h1 EXCEPT !.node[graph_node].dependencies = @ - 1] :
          h1 \in {dg_cancel_loop(h, graph_node, iteration, nest, cancel_type,
                                 depth)} } } : TRUE

\* ------------------------------------------------------------------------
\* The input scripts: each is the list of trees parsecmd returns.
\* ------------------------------------------------------------------------

Scripts ==
  << <<17>>,             \* cmd > f ; cmd < f > g ; cmd < g
     <<1, 4, 4>>,        \* cmd > f ; cmd < f ; cmd < f
     <<10, 2, 8, 9>>,    \* if cmd; then cmd > f; fi ; cmd < f > g ; cmd > g ; cmd < f < g
     <<12, 4, 4>>,       \* while cmd; do cmd > f; break; done ; cmd < f ; cmd < f
     <<14, 4>>,          \* while cmd; do continue; cmd > f; done ; cmd < f
     <<15, 4>>,          \* cmd && cmd > f ; cmd < f
     <<22>>,             \* while cmd; do if cmd; then continue; fi ; continue ;
                         \*               if cmd; then cmd; fi ; done
     <<26>>,             \* while cmd; do cmd > f ; continue ;
                         \*               while cmd < f; do cmd; done ; done
     <<30>>,             \* while cmd; do continue ; cmd > f ; cmd > g ;
                         \*               cmd < f < g ; done
     <<7, 4>>,           \* continue ; cmd < f
     <<33>>,             \* while cmd; do continue 2 ; cmd > f ; done
     <<38>>,             \* cat a > b ; cat b > c ; cat a > d
     <<44>>,             \* if grep -q foo a; then cp a b; else cp a c; fi ; cat b
     <<46>>,             \* if cmd; then cmd > f; else cmd > g; fi ; cmd < f
     <<52>>,             \* while true; do echo step ; break ; done ; echo after
     <<53, 4>>,          \* for x in a b c; do cmd > f; done ; cmd < f
     <<54, 4>>,          \* cmd || cmd > f ; cmd < f
     <<55, 4>>,          \* until cmd; do cmd > f; done ; cmd < f
     <<57>>,             \* while cmd; do while cmd; do break; done; done
     <<59>>,             \* while cmd; do if cmd; then continue; fi ; break; done
     <<61>>,             \* if cmd && cmd; then cmd > f; else cmd > g; fi
     <<64>>,             \* while cmd; do while cmd; do break 2; done; done
     <<65, 4>>           \* { cmd; } > f ; cmd < f
  >>

RECURSIVE Flatten(_)
Flatten(trees) ==
  IF trees = <<>> THEN <<>> ELSE node_proc(Head(trees)) \o Flatten(Tail(trees))

\* The commands the parser thread passes to dg_graph_add, in order.
Queue(s) == Flatten(Scripts[s])

\* ------------------------------------------------------------------------
\* State.
\* ------------------------------------------------------------------------

\* ------------------------------------------------------------------------
\* The variable store (states.c).  A C string is the sequence of its
\* character codes, without the terminating NUL.  The store is one record:
\*   vartab   the head of the chain of each hash bucket (NULL when empty)
\*   var      the variables (struct var2), by index
\*   state    the variable states (struct var_state), by index; made_for is
\*            a history field of the model, the name create_state was
\*            called for
\*   ret      what the last call returned
\*   arg      history: the name the last read_state was called with
\*   fault    "" or the fault that stopped the process
\* ------------------------------------------------------------------------

VTABSIZE == 39

\* The character '='.
EqChar == 61

\* The length of the prefix of the string p before the first '=' (strchr),
\* the whole length when there is none.
RECURSIVE NameLen(_)
NameLen(p) ==
  IF p = <<>> \/ Head(p) = EqChar THEN 0 ELSE 1 + NameLen(Tail(p))

\* create_state: memcpy of the first namelen characters.
copy_prefix(assignstr) == SubSeq(assignstr, 1, NameLen(assignstr))

RECURSIVE SumChars(_)
SumChars(p) == IF p = <<>> THEN 0 ELSE Head(p) + SumChars(Tail(p))

\* hashstate: the bucket of the string p.  hashval is an unsigned int; for
\* the names used here it stays far below the width of the type.
hashstate(p) ==
  LET first == IF p = <<>> THEN 0 ELSE Head(p)
      hashval == first * 16 + SumChars(copy_prefix(p))
  IN  hashval % VTABSIZE

\* varcmp of dash's var.c: 0 iff the two strings name the same variable,
\* the name ending at '=' or at the end of the string.
varcmp(p, q) == IF copy_prefix(p) = copy_prefix(q) THEN 0 ELSE 1

\* findvar: the variable of the chain starting at vp that is called name,
\* NULL when the chain has none.
RECURSIVE findvar(_, _, _)
findvar(s, vp, name) ==
  IF vp = NULL THEN NULL
  ELSE IF varcmp(s.var[vp].name, name) = 0 THEN vp
  ELSE findvar(s, s.var[vp].next, name)

initvar2 ==
  [vartab |-> [i \in 0..(VTABSIZE - 1) |-> NULL], var |-> <<>>,
   state |-> <<>>, ret |-> NULL, arg |-> <<>>, fault |-> ""]

\* Create a new variable state.
create_state(s, assignstr) ==
  LET name == copy_prefix(assignstr)
      b == hashstate(name)
      found == findvar(s, s.vartab[b], name)
      new_state == Len(s.state) + 1
      s1 == [s EXCEPT !.state = Append(@, [next |-> NULL, prev |-> NULL,
                                           val |-> NULL, made_for |-> name])]
      \* if (!vp) a new variable is linked at the head of the bucket;
      \* else vp = *vpp, the head of the bucket.
      s2 == IF found = NULL
            THEN [s1 EXCEPT !.var = Append(@, [next |-> s.vartab[b],
                                               name |-> name,
                                               head |-> NULL, tail |-> NULL]),
                            !.vartab[b] = Len(s.var) + 1]
            ELSE s1
      vp == IF found = NULL THEN Len(s.var) + 1 ELSE s.vartab[b]
      s3 == IF s2.var[vp].head = NULL
            THEN [s2 EXCEPT !.var[vp].head = new_state]
            ELSE [s2 EXCEPT !.state[s2.var[vp].tail].next = new_state,
                            !.state[new_state].prev = s2.var[vp].tail]
  IN  [s3 EXCEPT !.var[vp].tail = new_state, !.ret = new_state]

\* Read variable state.  var->tail is read without a test of var: for a
\* name that has no variable this dereferences NULL, and the process
\* faults or goes on with an indeterminate value (any of outcomes).
read_state(s, name, outcomes) ==
  LET var == findvar(s, s.vartab[hashstate(name)], name)
  IN  IF var = NULL
      THEN {[s EXCEPT !.fault = "null dereference", !.arg = name]}
             \cup {[s EXCEPT !.ret = r, !.arg = name] : r \in outcomes}
      ELSE {[s EXCEPT !.ret = s.var[var].tail, !.arg = name]}

VARIABLES
  node, fn, run_list, run_next, tail, eof,  \* the graph and the frontier
  ctype,      \* type field of the command trees
  fault,      \* "" while the process is running
  neof,       \* history: number of EOF sentinels created
  script,     \* the input script
  ppc,        \* parser thread: number of commands submitted so far
  pst,        \* parser thread: "parse", "set_eof" (eof written), "exit"
  wpc,        \* main thread (cmdloop): "run" or "done"
  inflight,   \* wrappers handed to the executor and not yet completed
  jl,         \* jobloop thread: "idle", "wait" (in cond_wait), "woken"
  jlret,      \* history: what the last dg_frontier_nonempty call returned on
  started,    \* history: graph nodes handed to the executor
  finished,   \* history: graph nodes whose completion was processed
  ndeliv,     \* history: number of times dg_graph_run returned the sentinel
  nrun,       \* history: number of calls of dg_graph_run that went through
  vs          \* the variable store of states.c (vartab and its objects)

gvars == <<tree, node, fn, run_list, run_next, tail, eof, ctype, fault, neof>>
vars == <<tree, node, fn, run_list, run_next, tail, eof, ctype, fault, neof,
          script, ppc, pst, wpc, inflight, jl, jlret, started, finished,
          ndeliv, nrun, vs>>

Pack(ub) ==
  [node |-> node, fn |-> fn, run_list |-> run_list, run_next |-> run_next,
   tail |-> tail, eof |-> eof, ctype |-> ctype, fault |-> fault,
   neof |-> neof, ub |-> ub, bcast |-> FALSE]

\* The state an operation leaves; a broadcast wakes the waiting jobloop.
Unpack(h) ==
  /\ node' = h.node
  /\ fn' = h.fn
  /\ run_list' = h.run_list
  /\ run_next' = h.run_next
  /\ tail' = h.tail
  /\ eof' = h.eof
  /\ ctype' = h.ctype
  /\ fault' = h.fault
  /\ neof' = h.neof
  /\ jl' = IF h.bcast /\ jl = "wait" THEN "woken" ELSE jl

UB == {"crash", "stale"}

\* dg_graph_init.
Init ==
  /\ node = <<>>
  /\ fn = <<>>
  /\ run_list = NULL
  /\ run_next = NULL
  /\ tail = NULL
  /\ eof = 0
  /\ tree = AST
  /\ ctype = [k \in 1..NTrees |-> AST[k].type]
  /\ fault = ""
  /\ neof = 0
  /\ script \in 1..Len(Scripts)
  /\ ppc = 0
  /\ pst = "parse"
  /\ wpc = "run"
  /\ inflight = {}
  /\ jl = "idle"
  /\ jlret = "none"
  /\ started = {}
  /\ finished = {}
  /\ ndeliv = 0
  /\ nrun = 0
  /\ vs = initvar2

\* Wrap a command with a graph node and add to graph.
dg_graph_add(h, new_cmd) ==
  CHOOSE val \in
    { dg_graph_add_node(h1, Len(h1.node), h1.run_list, TRUE) :
        h1 \in {dg_node_create(h, new_cmd, {"FREE_CMD"}, NULL)} } : TRUE

\* Parser thread: node_proc hands the next command to dg_graph_add.
Submit ==
  /\ fault = "" /\ pst = "parse" /\ ppc < Len(Queue(script))
  /\ \E ub \in UB :
       \E h \in {Pack(ub)} :
         \E r \in {dg_graph_add(h, Queue(script)[ppc + 1])} : Unpack(r)
  /\ ppc' = ppc + 1
  /\ UNCHANGED <<vs, tree, script, pst, wpc, inflight, jlret, started, finished, ndeliv,
                 nrun>>

\* Set eof flag in frontier: the write of the flag.
dg_frontier_set_eof_flag(h) == [h EXCEPT !.eof = 1]

\* A faulty dg_frontier_set_eof that creates the sentinel without testing
\* the list.
dg_frontier_set_eof_always(h) == dg_frontier_add_eof(h)

\* Set eof flag in frontier: the test of the list and the sentinel.
dg_frontier_set_eof_test(h) ==
  IF h.run_list = NULL THEN dg_frontier_add_eof(h) ELSE h

\* Parser thread at NEOF: dg_frontier_set_eof runs without the graph lock;
\* its write of the flag and its test of the list are separate steps.
SetEofFlag ==
  /\ fault = "" /\ pst = "parse" /\ ppc = Len(Queue(script))
  /\ \E h \in {Pack("crash")} : Unpack(dg_frontier_set_eof_flag(h))
  /\ pst' = "set_eof"
  /\ UNCHANGED <<vs, tree, script, ppc, wpc, inflight, jlret, started, finished, ndeliv,
                 nrun>>

SetEofTest ==
  /\ fault = "" /\ pst = "set_eof"
  /\ \E h \in {Pack("crash")} :
       \E r \in {dg_frontier_set_eof_test(h)} : Unpack(r)
  /\ pst' = "exit"
  /\ UNCHANGED <<vs, tree, script, ppc, wpc, inflight, jlret, started, finished, ndeliv,
                 nrun>>

\* evaltree reports completion for the commands it runs itself; the wrapper
\* of a compound command is removed by its last child instead.
evaltree_completes(t) ==
  t \notin {"NAND", "NOR", "NIF", "NWHILE", "NUNTIL"}

\* A faulty dg_graph_run that does not test the CANCELLED flag.
dg_graph_run_flag_blind(h) ==
  LET ret == h.run_next IN
  IF ret = EOFS
  THEN IF h.ub = "crash"
       THEN [h |-> Flt(h, "uninitialised read"), ret |-> NULL]
       ELSE [h |-> [h EXCEPT !.run_next = NULL], ret |-> EOFS]
  ELSE IF BadFn(h, ret) \/ BadNode(h, h.fn[ret].node)
       THEN [h |-> Flt(h, "use after free"), ret |-> NULL]
  ELSE IF Type(h, h.node[h.fn[ret].node].command) \in {"NCONT", "NBREAK"}
       THEN CHOOSE val \in
              { [h |-> h2, ret |-> NULL] :
                  h2 \in { dg_frontier_remove(h1, ret) :
                    h1 \in {[h EXCEPT !.run_next = h.fn[ret].next,
                                       !.fn[ret].run = @ + 1]} } }
              : TRUE
       ELSE [h |-> [h EXCEPT !.run_next = h.fn[ret].next,
                             !.fn[ret].run = @ + 1],
             ret |-> ret]

\* A faulty dg_graph_run that returns a wrapper and leaves the cursor on it.
dg_graph_run_cursor_stays(h) ==
  LET ret == h.run_next IN
  IF ret = EOFS
  THEN IF h.ub = "crash"
       THEN [h |-> Flt(h, "uninitialised read"), ret |-> NULL]
       ELSE [h |-> [h EXCEPT !.run_next = NULL], ret |-> EOFS]
  ELSE IF BadFn(h, ret) \/ BadNode(h, h.fn[ret].node)
       THEN [h |-> Flt(h, "use after free"), ret |-> NULL]
  ELSE IF Type(h, h.node[h.fn[ret].node].command) \in {"NCONT", "NBREAK"}
          \/ "CANCELLED" \in h.node[h.fn[ret].node].flag
       THEN CHOOSE val \in
              { [h |-> h2, ret |-> NULL] :
                  h2 \in { dg_frontier_remove(h1, ret) :
                    h1 \in {[h EXCEPT !.run_next = h.fn[ret].next,
                                       !.fn[ret].run = @ + 1]} } }
              : TRUE
       ELSE [h |-> [h EXCEPT !.fn[ret].run = @ + 1], ret |-> ret]

\* Return a process in the frontier: the state dg_graph_run leaves and the
\* wrapper it returns (NULL after a continue, break or cancelled node).
\* The graph node and the next pointer of the EOF sentinel are never
\* initialised, so on the sentinel the test of the CANCELLED flag reads an
\* indeterminate value: either the sentinel is returned, or the process
\* goes on with garbage.
dg_graph_run(h) ==
  LET ret == h.run_next IN
  IF ret = EOFS
  THEN IF h.ub = "crash"
       THEN [h |-> Flt(h, "uninitialised read"), ret |-> NULL]
       ELSE [h |-> [h EXCEPT !.run_next = NULL], ret |-> EOFS]
  ELSE IF BadFn(h, ret) \/ BadNode(h, h.fn[ret].node)
       THEN [h |-> Flt(h, "use after free"), ret |-> NULL]
  ELSE IF Type(h, h.node[h.fn[ret].node].command) \in {"NCONT", "NBREAK"}
          \/ "CANCELLED" \in h.node[h.fn[ret].node].flag
       THEN CHOOSE val \in
              { [h |-> h2, ret |-> NULL] :
                  h2 \in { dg_frontier_remove(h1, ret) :
                    h1 \in {[h EXCEPT !.run_next = h.fn[ret].next,
                                       !.fn[ret].run = @ + 1]} } }
              : TRUE
       ELSE [h |-> [h EXCEPT !.run_next = h.fn[ret].next,
                             !.fn[ret].run = @ + 1],
             ret |-> ret]

\* cmdloop receives the EOF sentinel and leaves its loop.
RunEof ==
  /\ fault = "" /\ wpc = "run" /\ run_next = EOFS
  /\ \E ub \in UB :
       \E h \in {Pack(ub)} : \E r \in {dg_graph_run(h)} :
       /\ Unpack(r.h)
       /\ wpc' = IF r.ret = EOFS THEN "done" ELSE wpc
       /\ ndeliv' = IF r.ret = EOFS THEN ndeliv + 1 ELSE ndeliv
  /\ nrun' = nrun + 1
  /\ UNCHANGED <<vs, tree, script, ppc, pst, inflight, jlret, started, finished>>

\* cmdloop receives NULL and calls dg_graph_run again.
RunSkip ==
  /\ fault = "" /\ wpc = "run" /\ run_next \notin {NULL, EOFS}
  /\ \E ub \in UB :
       \E h \in {Pack(ub)} : \E r \in {dg_graph_run(h)} :
       /\ r.ret = NULL
       /\ Unpack(r.h)
  /\ nrun' = nrun + 1
  /\ UNCHANGED <<vs, tree, script, ppc, pst, wpc, inflight, jlret, started, finished,
                 ndeliv>>

\* cmdloop receives a wrapper and hands its command to evaltree.
RunTake ==
  /\ fault = "" /\ wpc = "run" /\ run_next \notin {NULL, EOFS}
  /\ \E ub \in UB :
       \E h \in {Pack(ub)} : \E r \in {dg_graph_run(h)} :
       /\ r.ret # NULL
       /\ Unpack(r.h)
       /\ started' = started \cup {r.h.fn[r.ret].node}
       /\ inflight' =
            IF evaltree_completes(
                 Type(r.h, r.h.node[r.h.fn[r.ret].node].command))
            THEN inflight \cup {r.ret}
            ELSE inflight
  /\ nrun' = nrun + 1
  /\ UNCHANGED <<vs, tree, script, ppc, pst, wpc, jlret, finished, ndeliv>>

\* The bounds: a test may report a loop-continuing status only while the
\* loop's counter is below MaxIter and the graph has fewer than MaxNodes
\* nodes.
WithinBound(f, s) ==
  LET g == fn[f].node
      p == node[g].parent
  IN  ("TEST_STATUS" \in node[g].flag /\ p # NULL
         /\ LoopGoesOn(fn[p].type, s))
      => (fn[p].iteration < MaxIter /\ Len(node) < MaxNodes)

\* A command finishes with exit status s: dg_frontier_remove.
Complete(f, s) ==
  /\ fault = "" /\ f \in inflight
  /\ WithinBound(f, s)
  /\ \E ub \in UB :
       \E h \in {[Pack(ub) EXCEPT !.fn[f].status = s]} :
         \E r \in {dg_frontier_remove(h, f)} : Unpack(r)
  /\ inflight' = inflight \ {f}
  /\ finished' = finished \cup {fn[f].node}
  /\ UNCHANGED <<vs, tree, script, ppc, pst, wpc, jlret, started, ndeliv, nrun>>

CompleteAny == \E f \in inflight, s \in {0, 1} : Complete(f, s)

\* jobloop calls dg_frontier_nonempty: it returns at once when the list is
\* non-empty and waits on the condition variable otherwise.
JobCall ==
  /\ fault = "" /\ jl = "idle"
  /\ IF run_list # NULL
     THEN jl' = "idle" /\ jlret' = "nonempty"
     ELSE jl' = "wait" /\ jlret' = jlret
  /\ UNCHANGED <<gvars, vs, tree, script, ppc, pst, wpc, inflight, started, finished,
                 ndeliv, nrun>>

\* pthread_cond_wait returns (after a broadcast, or spuriously) and
\* dg_frontier_nonempty returns without testing the list again.
JobReturn ==
  /\ fault = "" /\ jl \in {"wait", "woken"}
  /\ jl' = "idle"
  /\ jlret' = IF run_list = NULL THEN "empty" ELSE "nonempty"
  /\ UNCHANGED <<gvars, vs, tree, script, ppc, pst, wpc, inflight, started, finished,
                 ndeliv, nrun>>

Next ==
  \/ Submit
  \/ SetEofFlag
  \/ SetEofTest
  \/ RunEof
  \/ RunSkip
  \/ RunTake
  \/ CompleteAny
  \/ JobCall
  \/ JobReturn

Spec == Init /\ [][Next]_vars

\* The parser thread: it submits the next command, or writes the EOF flag,
\* or tests the list and exits.
parseloop == Submit \/ SetEofFlag \/ SetEofTest

\* The main thread: it calls dg_graph_run again while it has not received
\* the sentinel.
cmdloop == RunEof \/ RunSkip \/ RunTake

\* A command thread: the command ends and reports its completion.
evaltree_thread == CompleteAny

\* A specification with the fairness the threads' scheduling gives: the
\* parser, cmdloop and the running commands go on while they can.  The
\* jobloop thread needs no fairness.
FairSpec ==
  /\ Spec
  /\ WF_vars(parseloop)
  /\ WF_vars(cmdloop)
  /\ WF_vars(evaltree_thread)

\* The names and the assignment strings the callers of the variable store
\* use: A and h fall into the same hash bucket, b into another one.
VarNames == {<<65>>, <<104>>, <<98>>}
AssignStrs == {<<65, 61, 49>>, <<104, 61, 49>>, <<98, 61, 49>>, <<65>>}

\* A caller creates a state for the variable of an assignment.
CreateState ==
  /\ vs.fault = "" /\ Len(vs.state) < MaxStates
  /\ \E a \in AssignStrs : vs' = create_state(vs, a)
  /\ UNCHANGED <<gvars, script, ppc, pst, wpc, inflight, jl, jlret, started,
                 finished, ndeliv, nrun>>

\* A caller reads the current state of a variable.
ReadState ==
  /\ vs.fault = ""
  /\ \E n \in VarNames :
       vs' \in read_state(vs, n, {NULL} \cup (1..Len(vs.state)))
  /\ UNCHANGED <<gvars, script, ppc, pst, wpc, inflight, jl, jlret, started,
                 finished, ndeliv, nrun>>

StatesNext == CreateState \/ ReadState

\* The variable store alone, before any command is submitted.
StatesInit == Init /\ script = 1

StatesSpec == StatesInit /\ [][StatesNext]_vars

\* ------------------------------------------------------------------------
\* Vocabulary of the properties.
\* ------------------------------------------------------------------------

Nodes == 1..Len(node)
Fns == 1..Len(fn)
Live(g) == node[g].st = "live"
Removed(g) == node[g].st = "freed"
TopLevel(g) == node[g].parent = NULL

\* The allocated cells of g's dependents list.
Deps(g) == SubSeq(node[g].dependents, 1, node[g].dlive)
DepSet(g) == {Deps(g)[i] : i \in 1..Len(Deps(g))}

\* The wrappers linked in the frontier list, following next from run_list.
RECURSIVE ListFrom(_, _)
ListFrom(f, n) ==
  IF f = NULL \/ n = 0 THEN <<>> ELSE <<f>> \o ListFrom(fn[f].next, n - 1)
FrontierList == ListFrom(run_list, Len(fn))
Linked == {FrontierList[i] : i \in 1..Len(FrontierList)}
OnFrontier(g) == \E f \in Linked : fn[f].node = g

\* Two footprints share a name that at least one of them writes.
WriteConflict(fs1, fs2) ==
  \E i \in 1..Len(fs1), j \in 1..Len(fs2) :
    /\ fs1[i].name # NoName /\ fs1[i].name = fs2[j].name
    /\ (fs1[i].flag = "WRITE_ACCESS" \/ fs2[j].flag = "WRITE_ACCESS")

\* ------------------------------------------------------------------------
\* Properties.
\* ------------------------------------------------------------------------

\* The process has not crashed; the state is one between two operations.
Running == fault = ""

\* C1: conflict serialisation.  For submitted commands a before b in source
\* order whose footprints share a name that one of them writes, b is not
\* handed to a worker before the completion of a has been processed.
C1_ConflictSerialisation ==
  Running =>
  \A a \in Nodes, b \in Nodes :
    (/\ a < b /\ TopLevel(a) /\ TopLevel(b)
     /\ WriteConflict(node[a].files0, node[b].files0)
     /\ b \in started)
    => Removed(a)

\* C2: no deadlock.  Once set_eof has been called, and unless the process
\* crashes, every submitted command is eventually handed to a worker (or
\* cancelled, or removed) and the EOF sentinel is eventually returned by
\* dg_graph_run, and never twice.
AllHanded ==
  \A g \in Nodes : g \in started \/ Removed(g) \/ "CANCELLED" \in node[g].flag
C2_NoDeadlock ==
  /\ (eof = 1) ~> (~Running \/ (ndeliv = 1 /\ AllHanded))
  /\ [](ndeliv <= 1)

\* C3: frontier soundness.  Every wrapper linked in the frontier refers to
\* a graph node with no dependencies, and every graph node that is not yet
\* removed and has no dependencies is on the frontier.
C3_FrontierSoundness ==
  Running =>
  /\ \A f \in Linked : node[fn[f].node].dependencies = 0
  /\ \A g \in Nodes : (Live(g) /\ node[g].dependencies = 0) => OnFrontier(g)

\* C4: dependent accounting.  The dependencies counter of every live graph
\* node equals the number of live nodes that list it as a dependent.
C4_DependentAccounting ==
  Running =>
  \A g \in Nodes :
    Live(g) =>
      node[g].dependencies = Cardinality({m \in Nodes : Live(m) /\ g \in DepSet(m)})

\* The top-level command a graph node was expanded from.
RECURSIVE TopOf(_)
TopOf(g) == IF node[g].parent = NULL THEN g ELSE TopOf(fn[node[g].parent].node)

\* x comes before y in source order.
Before(x, y) == TopOf(x) < TopOf(y) \/ (TopOf(x) = TopOf(y) /\ x < y)

\* y can be reached from x along dependents edges in at most n steps.
RECURSIVE Reach(_, _, _)
Reach(x, y, n) ==
  n > 0 /\ (y \in DepSet(x) \/ \E z \in DepSet(x) : Live(z) /\ Reach(z, y, n - 1))

\* C5: every dependency edge points in parse order, hence the graph of
\* dependents is acyclic.
C5_EdgesInParseOrder ==
  Running =>
  /\ \A x \in Nodes : Live(x) => \A y \in DepSet(x) : Before(x, y)
  /\ \A x \in Nodes : Live(x) => ~Reach(x, x, Len(node))

C7_SetEofAtomic ==
  [][(pst = "set_eof" /\ pst' = "set_eof") => UNCHANGED gvars]_vars

\* C8: the parent wrapper of every graph node that is not yet removed is
\* allocated and linked in the frontier.
C8_ParentLinked ==
  Running =>
  \A g \in Nodes :
    (Live(g) /\ node[g].parent # NULL)
    => (fn[node[g].parent].st = "live" /\ node[g].parent \in Linked)

\* The wrappers that leave the frontier list in a step.
Unlinked == {f \in Fns : fn[f].st = "live" /\ fn'[f].st = "freed"}

\* The graph nodes created for the children of wrapper f.
Children(f) == {g \in Nodes : node[g].parent = f}

\* C9: a wrapper that had children is unlinked only with an active count
\* of zero and kind simple, after all of its children have been removed.
C9_CompoundUnlink ==
  [][\A f \in Unlinked :
       (fault' = "" /\ Children(f) # {}) =>
         /\ fn'[f].active = 0
         /\ fn'[f].type = "DG_NCMD"
         /\ \A g \in Children(f) : node'[g].st = "freed"]_vars

\* A graph node flagged cancelled, or whose command is a continue or break.
IsSkipNode(g) ==
  \/ "CANCELLED" \in node[g].flag
  \/ (~IsWrap(node[g].command) /\ ctype[node[g].command] \in {"NCONT", "NBREAK"})

\* The cursor of dg_graph_run stands on an allocated wrapper of such a node.
AtSkipNode ==
  /\ run_next \notin {NULL, EOFS}
  /\ fn[run_next].st = "live"
  /\ Live(fn[run_next].node)
  /\ IsSkipNode(fn[run_next].node)

CancelledRemoval ==
  /\ AtSkipNode /\ "CANCELLED" \in node[fn[run_next].node].flag
  /\ node[fn[run_next].node].parent # NULL
  /\ fn[node[fn[run_next].node].parent].st = "live"
  /\ nrun' # nrun /\ fault' = ""

C12_CancelledOnce == fault # "double free"

\* A continue or break submitted as a command of its own outside every
\* loop: node_proc has wrapped it and its graph node has no parent.
LooplessCtl(g) ==
  /\ node[g].parent = NULL /\ IsWrap(node[g].command)
  /\ tree[Inner(node[g].command)].text \in {"continue", "break"}

\* C13: the nest a continue / break entry names is at least 1 and at most
\* the nest of its graph node (1 for a node outside every loop): a count
\* beyond the enclosing loops names the outermost loop.  The removal of a
\* continue / break that has no parent wrapper removes and cancels no other
\* node and does not stop the process.
C13_ClampedOrNoOp ==
  /\ [](Running =>
         \A g \in Nodes : \A i \in 1..Len(node[g].files0) :
           node[g].files0[i].name = NoName =>
             /\ node[g].files0[i].name_size >= 1
             /\ node[g].files0[i].name_size <= Max(1, node[g].nest))
  /\ [][\A g \in Nodes :
          (LooplessCtl(g) /\ Live(g) /\ node'[g].st = "freed") =>
            /\ fault' = ""
            /\ \A m \in Nodes \ {g} :
                 /\ node'[m].st = node[m].st
                 /\ node'[m].flag = node[m].flag]_vars

\* A continue 2 inside a single loop has been removed and has cancelled
\* the rest of the body of that loop.
C13_ClampedContinue ==
  /\ Running
  /\ \E g, m \in Nodes :
       /\ Removed(g) /\ ~IsWrap(node[g].command)
       /\ tree[node[g].command].narg = 2 /\ node[g].nest = 1
       /\ Removed(m) /\ m \notin started /\ node[m].parent = node[g].parent
       /\ node[m].iteration = node[g].iteration /\ m > g

\* C14: dg_frontier_nonempty returns to jobloop only when the frontier
\* list is non-empty, whichever wake-up ended its wait.
C14_ReturnsNonEmpty ==
  [][(jl \in {"wait", "woken"} /\ jl' = "idle") => run_list # NULL]_vars

\* C15: dg_graph_run goes through only when run_next is not NULL, and the
\* wrapper it then stands on has not been handed out before while every
\* wrapper enqueued before it has been: the wrappers are handed out in the
\* order of their enqueueing, each at most once.  (The calls of several
\* workers are serialised by the graph lock.)
C15_ListOrderOnce ==
  [][(nrun' # nrun /\ run_next # EOFS) =>
       /\ run_next # NULL
       /\ fn[run_next].run = 0
       /\ \A f \in 1..(run_next - 1) : fn[f].run > 0]_vars

\* Wrappers were enqueued while the cursor was NULL and while it was not,
\* and three wrappers have been handed out, one of them skipped.
C15_ThreeHanded ==
  /\ Running
  /\ \E f1, f2, f3 \in Fns :
       /\ f1 < f2 /\ f2 < f3
       /\ fn[f1].run = 1 /\ fn[f2].run = 1 /\ fn[f3].run = 1
       /\ fn[f2].st = "freed" /\ fn[f2].node \notin started
       /\ fn[f3].node \in started
  /\ \E f \in Linked : fn[f].run = 0

\* C16: an edge stands only between two nodes whose footprints share a
\* name that one of them writes (or behind a node that holds a continue /
\* break entry), never between nodes that share only names both read; and
\* no node is listed twice in the dependents list of a node.
C16_EdgesOnlyOnWrite ==
  Running =>
  \A x \in Nodes : Live(x) =>
    /\ \A y \in DepSet(x) :
         \/ WriteConflict(node[x].files0, node[y].files0)
         \/ \E i \in 1..Len(node[x].files0) : node[x].files0[i].name = NoName
    /\ \A i, j \in 1..Len(Deps(x)) : i # j => Deps(x)[i] # Deps(x)[j]

\* Two commands that read the same file wait for the command that writes
\* it and there is no edge between the two.
C16_ReadersSideBySide ==
  /\ Running
  /\ \E w, x, y \in Nodes :
       /\ Live(w) /\ Live(x) /\ Live(y) /\ x # y
       /\ x \in DepSet(w) /\ y \in DepSet(w)
       /\ \E i \in 1..Len(node[x].files0), j \in 1..Len(node[y].files0) :
            node[x].files0[i].name = node[y].files0[j].name
       /\ ~WriteConflict(node[x].files0, node[y].files0)
       /\ y \notin DepSet(x) /\ x \notin DepSet(y)

\* Two graph nodes whose footprints share a name, share none that either
\* of them writes, and hold no continue / break entry.
ReadShare(x, y) ==
  /\ x # y
  /\ \E i \in 1..Len(node[x].files0), j \in 1..Len(node[y].files0) :
       node[x].files0[i].name = node[y].files0[j].name
  /\ ~WriteConflict(node[x].files0, node[y].files0)
  /\ \A i \in 1..Len(node[x].files0) : node[x].files0[i].name # NoName
  /\ \A j \in 1..Len(node[y].files0) : node[y].files0[j].name # NoName

\* C17: read parallelism.  Two commands that share only names both read
\* are not ordered: neither waits in the dependents list of the other, and
\* when both are in flight the completion of one leaves the other in
\* flight with its wrapper linked, so either may complete first.
C17_ReadersUnordered ==
  /\ [](Running =>
         \A x, y \in Nodes :
           (Live(x) /\ Live(y) /\ ReadShare(x, y)) => y \notin DepSet(x))
  /\ [][\A f1, f2 \in inflight :
          (/\ ReadShare(fn[f1].node, fn[f2].node)
           /\ f1 \notin inflight' /\ fault' = "")
          => (f2 \in inflight' /\ fn'[f2].st = "live"
              /\ node'[fn[f2].node].st = "live")]_vars

\* Two commands that read the same file are in flight at once.
C17_BothInFlight ==
  /\ Running
  /\ \E f1, f2 \in inflight :
       /\ ReadShare(fn[f1].node, fn[f2].node)
       /\ fn[f1].node \in started /\ fn[f2].node \in started

\* C18: dg_frontier_remove takes its steps on a wrapper in this order:
\* the processing of the parent, the unlinking, the removal of the graph
\* node (which releases the dependents), and then the test that creates
\* the EOF sentinel; a wrapper that is still allocated has had none of
\* them.  (A second removal of a freed wrapper repeats the four steps.)
C18_RemoveStepOrder ==
  Running =>
  \A f \in Fns :
    /\ fn[f].st = "live" => fn[f].did = <<>>
    /\ fn[f].st = "freed" =>
         /\ Len(fn[f].did) % 4 = 0
         /\ \A i \in 1..Len(fn[f].did) :
              fn[f].did[i] = <<"parent_proc", "unlink", "graph_remove",
                              "eof_test">>[((i - 1) % 4) + 1]

\* The wrapper of a test command has been removed after its parent was
\* processed and expanded, the wrapper of a command has been removed and
\* its dependent released, and the EOF sentinel has been created.
C18_TestRemoved ==
  /\ Running /\ neof = 1 /\ finished # {}
  /\ \E f \in Fns :
       /\ fn[f].st = "freed" /\ Len(fn[f].did) = 4
       /\ "TEST_STATUS" \in node[fn[f].node].flag0
       /\ Cardinality(Children(node[fn[f].node].parent)) > 1
  /\ \E f \in Fns :
       /\ fn[f].st = "freed" /\ Len(fn[f].did) = 4
       /\ \E i \in 1..Len(node[fn[f].node].dependents) :
            node[node[fn[f].node].dependents[i]].enq > 0

\* C19: scenario S1, cat a > b ; cat b > c ; cat a > d.  With the three
\* commands submitted and the first not yet completed, the frontier holds
\* the first command only and the second and the third each wait for it;
\* once the first has completed, the second and the third are on the
\* frontier until they complete.
C19_ScenarioS1 ==
  (Running /\ Scripts[script] = <<38>> /\ Len(node) = 3) =>
    /\ Live(1) =>
         /\ {fn[f].node : f \in Linked} = {1}
         /\ node[2].dependencies = 1 /\ node[3].dependencies = 1
         /\ DepSet(1) = {2, 3}
    /\ Removed(1) =>
         \A g \in {2, 3} : Live(g) => OnFrontier(g)

\* The command tree a graph node carries, without the background wrapper.
Payload(g) ==
  IF IsWrap(node[g].command) THEN Inner(node[g].command) ELSE node[g].command

\* The test of the if command i has completed with status s.
TestDone(i, s) ==
  \E f \in Fns :
    /\ fn[f].st = "freed" /\ fn[f].status = s
    /\ Payload(fn[f].node) = tree[i].ch1 /\ fn[f].node \in finished

\* What scenario S3 expects of the if command i and of the command r that
\* follows it: r is not handed out before the test of i has completed; after
\* a successful test it is not handed out before the then-branch command
\* has completed; after a failed test it waits for no command and is on the
\* frontier, and it never waits in the list of an else-branch command.
S3Expected(i, r) ==
  \A g \in Nodes :
    Payload(g) = r =>
      /\ g \in started => (TestDone(i, 0) \/ TestDone(i, 1))
      /\ (g \in started /\ TestDone(i, 0)) =>
           \E b \in finished : Payload(b) = tree[i].ch2
      /\ (Live(g) /\ TestDone(i, 1)) =>
           (node[g].dependencies = 0 /\ OnFrontier(g))
      /\ \A e \in Nodes :
           (Live(e) /\ Payload(e) = tree[i].ch3) => g \notin DepSet(e)

\* C20: scenario S3, if grep -q foo a ; then cp a b ; else cp a c ; fi ;
\* cat b.  cat b is not handed out before the test has completed; when the
\* test succeeds it is not handed out before cp a b has completed; when the
\* test fails it is released and depends on no else-branch command.
C20_ScenarioS3 ==
  (Running /\ Scripts[script] = <<44>>) => S3Expected(42, 43)

\* The initial states with the input of scenario S6.
InitS6 == Init /\ Scripts[script] = <<52>>

\* The fair specification for the input of scenario S6 alone.
FairSpecS6 ==
  /\ InitS6
  /\ [][Next]_vars
  /\ WF_vars(parseloop)
  /\ WF_vars(cmdloop)
  /\ WF_vars(evaltree_thread)

\* The graph nodes created for the command tree t.
Of(t) == {g \in Nodes : Payload(g) = t}

\* A test of the loop tree l has completed with a status that ends the loop
\* (a test that is the command true never does).
TestEndedLoop(l) ==
  \E f \in Fns :
    /\ fn[f].node \in Of(tree[l].ch1) /\ fn[f].node \in finished
    /\ ~LoopGoesOn(IF tree[l].type = "NWHILE" THEN "DG_NWHILE" ELSE "DG_NUNTIL",
                   fn[f].status)

\* The wrapper of the graph node g has been unlinked and freed.
WrapperFreed(g) == \E f \in Fns : fn[f].node = g /\ fn[f].st = "freed"

\* C21: scenario S6, while true ; do echo step ; break ; done ; echo after.
\* The body is expanded at most once and the test created for the next
\* iteration is never put on the frontier nor handed out; as long as the
\* tests report success, eventually the body has been expanded once, the
\* next test has been cancelled and removed, the loop wrapper has been
\* removed and echo after has been handed to a worker.
C21_ScenarioS6 ==
  /\ [](Scripts[script] = <<52>> =>
          /\ Cardinality(Of(48)) <= 1
          /\ \A g \in Of(47) :
               node[g].iteration >= 1 => (g \notin started /\ node[g].enq = 0))
  /\ <>(\/ Scripts[script] # <<52>>
        \/ TestEndedLoop(50)
        \/ /\ fault = ""
           /\ Cardinality(Of(48)) = 1
           /\ \E g \in Of(47) :
                node[g].iteration = 1 /\ Removed(g) /\ g \notin started
           /\ \A g \in Of(50) : WrapperFreed(g)
           /\ Of(50) # {}
           /\ \E g \in Of(51) : g \in started)

\* The state scenario S6 ends in: one body expansion, the second test
\* removed without having run, the loop wrapper removed, echo after started.
C21_BrokenOut ==
  /\ Running /\ Scripts[script] = <<52>>
  /\ Cardinality(Of(48)) = 1
  /\ \E g \in Of(47) : node[g].iteration = 1 /\ Removed(g) /\ g \notin started
  /\ \E g \in Of(50) : WrapperFreed(g)
  /\ \E g \in Of(51) : g \in started

\* C22: a for command on the frontier has wrapper kind for, and its wrapper
\* is removed only after body commands were created as its children and
\* have all been removed.
C22_ForWrapper ==
  Running =>
    \A f \in Fns :
      tree[Payload(fn[f].node)].type = "NFOR" =>
        /\ fn[f].st = "live" => fn[f].type = "DG_NFOR"
        /\ fn[f].st = "freed" =>
             (Children(f) # {} /\ \A c \in Children(f) : Removed(c))

\* A command tree without the background wrapper.
Unwrap(c) == IF IsWrap(c) THEN Inner(c) ELSE c

\* The commands node_list makes of the tree n.
BranchSet(n) ==
  LET l == node_list([ctype |-> ctype], n)
  IN  {Unwrap(l[i]) : i \in 1..Len(l)}

\* The wrapper f of a status-reporting test child is removed in this step
\* while its parent is an && / || / if wrapper that has not decided yet.
Decides(f) ==
  /\ fn[f].st = "live" /\ fn'[f].st = "freed"
  /\ node[fn[f].node].st = "live"
  /\ "TEST_STATUS" \in node[fn[f].node].flag
  /\ node[fn[f].node].parent # NULL
  /\ fn[node[fn[f].node].parent].st = "live"
  /\ fn[node[fn[f].node].parent].type \in {"DG_NAND", "DG_NOR", "DG_NIF"}

\* The part of the command c that the claim says is expanded on status s
\* by a wrapper of kind k.
Chosen(k, c, s) ==
  IF k = "DG_NIF" THEN (IF s = 0 THEN tree[c].ch2 ELSE tree[c].ch3)
  ELSE IF (k = "DG_NAND" /\ s = 0) \/ (k = "DG_NOR" /\ s # 0) THEN tree[c].ch2
  ELSE NULL

\* C23: when the status-reporting test child of an && / || / if wrapper
\* completes with status s, the children created under the wrapper are the
\* commands of the right operand for && iff s = 0 and for || iff s # 0, of
\* the then-part of an if when s = 0 and of its else-part otherwise; the
\* wrapper's dependents are taken off its list and each is enqueued or
\* waits for another node; the wrapper's kind becomes simple and, once
\* simple, stays simple, so that the decision is made once.
C23_BranchDecision ==
  /\ [][\A f \in Fns :
          (Decides(f) /\ fault' = "") =>
            LET p  == node[fn[f].node].parent
                pg == fn[p].node
                s  == fn'[f].status
            IN  /\ {Unwrap(node'[g].command) :
                      g \in {x \in (Len(node) + 1)..Len(node') :
                               node'[x].parent = p}}
                     = BranchSet(Chosen(fn[p].type, node[pg].command, s))
                /\ fn'[p].type = "DG_NCMD"
                /\ node'[pg].dependents = <<>>
                /\ \A d \in DepSet(pg) :
                     \/ node'[d].enq > node[d].enq
                     \/ \E x \in 1..Len(node') :
                          /\ node'[x].st = "live"
                          /\ \E i \in 1..node'[x].dlive :
                               node'[x].dependents[i] = d]_vars
  /\ [][\A p \in Fns :
          (fn[p].type = "DG_NCMD" /\ fault' = "") => fn'[p].type = "DG_NCMD"]_vars

\* An || wrapper whose test failed: its right operand is a child, its kind
\* is simple and the command that waited for the wrapper waits for the
\* child.
C23_OrTookRight ==
  /\ Running
  /\ \E p \in Fns :
       /\ fn[p].st = "live" /\ fn[p].type = "DG_NCMD"
       /\ tree[Payload(fn[p].node)].type = "NOR"
       /\ \E f \in Fns :
            /\ fn[f].st = "freed" /\ fn[f].status # 0
            /\ node[fn[f].node].parent = p
            /\ "TEST_STATUS" \in node[fn[f].node].flag0
       /\ \E b \in Children(p) :
            /\ Live(b) /\ "BODY_STATUS" \in node[b].flag0
            /\ Payload(b) = tree[Payload(fn[p].node)].ch2
            /\ \E d \in DepSet(b) : TopLevel(d)

\* The wrapper f of a status-reporting test child is removed in this step
\* while its parent is a while / until wrapper.
LoopSteps(f) ==
  /\ fn[f].st = "live" /\ fn'[f].st = "freed"
  /\ node[fn[f].node].st = "live"
  /\ "TEST_STATUS" \in node[fn[f].node].flag
  /\ node[fn[f].node].parent # NULL
  /\ fn[node[fn[f].node].parent].st = "live"
  /\ fn[node[fn[f].node].parent].type \in {"DG_NWHILE", "DG_NUNTIL"}

\* The graph nodes created in this step as children of the wrapper p.
NewChildren(p) ==
  {x \in (Len(node) + 1)..Len(node') : node'[x].parent = p}

IsBodyNode(flag) == flag \cap {"BODY_CMD", "BODY_STATUS"} # {}
IsTestNode(flag) == flag \cap {"TEST_CMD", "TEST_STATUS"} # {}

\* C24: when the status-reporting test child of a while (until) wrapper
\* completes with status 0 (non-zero), the body commands are created first,
\* with the wrapper's iteration number, which is above that of every
\* earlier body node of the wrapper; the counter goes up by one; the test
\* commands are created after the body commands, with the new number.
\* When the test ends the loop, no child is created and the kind becomes
\* simple.
C24_LoopStep ==
  [][\A f \in Fns :
       (LoopSteps(f) /\ fault' = "") =>
         LET p  == node[fn[f].node].parent
             c  == node[fn[p].node].command
             s  == fn'[f].status
             B  == {x \in NewChildren(p) : IsBodyNode(node'[x].flag0)}
             T  == {x \in NewChildren(p) : IsTestNode(node'[x].flag0)}
         IN  IF \/ (fn[p].type = "DG_NWHILE" /\ s = 0)
                \/ (fn[p].type = "DG_NUNTIL" /\ s # 0)
             THEN /\ NewChildren(p) = B \cup T
                  /\ {Unwrap(node'[x].command) : x \in B} = BranchSet(tree[c].ch2)
                  /\ {Unwrap(node'[x].command) : x \in T} = BranchSet(tree[c].ch1)
                  /\ \A b \in B, t \in T : b < t
                  /\ \A b \in B :
                       /\ node'[b].iteration = fn[p].iteration
                       /\ \A o \in Children(p) :
                            IsBodyNode(node[o].flag0) =>
                              node[o].iteration < node'[b].iteration
                  /\ fn'[p].iteration = fn[p].iteration + 1
                  /\ \A t \in T : node'[t].iteration = fn[p].iteration + 1
                  /\ fn'[p].type = fn[p].type
             ELSE /\ NewChildren(p) = {}
                  /\ fn'[p].iteration = fn[p].iteration
                  /\ fn'[p].type = "DG_NCMD"]_vars

\* An until loop in its second turn: body nodes of iterations 0 and 1 were
\* created under the wrapper and the test of iteration 2 is its child.
C24_SecondTurn ==
  /\ Running
  /\ \E p \in Fns :
       /\ fn[p].st = "live" /\ fn[p].type = "DG_NUNTIL" /\ fn[p].iteration = 2
       /\ \E b0, b1 \in Children(p) :
            /\ b0 < b1
            /\ IsBodyNode(node[b0].flag0) /\ node[b0].iteration = 0
            /\ IsBodyNode(node[b1].flag0) /\ node[b1].iteration = 1
       /\ \E t \in Children(p) :
            IsTestNode(node[t].flag0) /\ node[t].iteration = 2 /\ Live(t)

\* C25: while a wrapper has kind while / until, its graph node, unless it
\* was cancelled before it was enqueued, has the footprint it was created
\* with; a step that enqueues a loop leaves its footprint and dependents
\* as they were; a step that expands the test or the body
\* leaves the node's dependents list as it was and enqueues none of the
\* dependents; a dependent is enqueued only by a step after which the
\* wrapper is no longer a loop, and the step in which the test ends the loop
\* takes every dependent off the list.
C25_LoopShadows ==
  /\ [](Running =>
          \A p \in Fns :
            (fn[p].st = "live" /\ IsLoopType(fn[p].type)
               /\ Live(fn[p].node)
               /\ "CANCELLED" \notin node[fn[p].node].flag) =>
              /\ node[fn[p].node].files = node[fn[p].node].files0
              /\ ~node[fn[p].node].ffree)
  /\ [][\A p \in (Len(fn) + 1)..Len(fn') :
          (fault' = "" /\ IsLoopType(fn'[p].type)
             /\ fn'[p].node <= Len(node)) =>
            /\ node'[fn'[p].node].files = node[fn'[p].node].files
            /\ node'[fn'[p].node].ffree = node[fn'[p].node].ffree
            /\ node'[fn'[p].node].dependents = node[fn'[p].node].dependents]_vars
  /\ [][\A f \in Fns :
          (LoopSteps(f) /\ fault' = "") =>
            LET p  == node[fn[f].node].parent
                pg == fn[p].node
            IN  IF IsLoopType(fn'[p].type)
                THEN /\ node'[pg].files = node[pg].files
                     /\ node'[pg].ffree = node[pg].ffree
                     /\ node'[pg].dependents = node[pg].dependents
                     /\ node'[pg].dlive = node[pg].dlive
                     /\ \A d \in DepSet(pg) : node'[d].enq = node[d].enq
                ELSE node'[pg].dependents = <<>>]_vars
  /\ [][\A p \in Fns :
          (fn[p].st = "live" /\ IsLoopType(fn[p].type) /\ Live(fn[p].node)
             /\ fault' = "") =>
            \A d \in DepSet(fn[p].node) :
              node'[d].enq > node[d].enq =>
                (fn'[p].st = "freed" \/ ~IsLoopType(fn'[p].type))]_vars

\* A loop in a later turn with a command still waiting behind it: the
\* command was created before the nodes of the last expansion and has not
\* been enqueued.
C25_WaitsBehindLoop ==
  /\ Running
  /\ \E p \in Fns :
       /\ fn[p].st = "live" /\ IsLoopType(fn[p].type) /\ fn[p].iteration >= 1
       /\ \E d \in DepSet(fn[p].node), c \in Children(p) :
            /\ Live(d) /\ node[d].enq = 0 /\ node[d].dependencies > 0
            /\ node[c].iteration >= 1 /\ d < c

\* The wrappers above the graph node g, nearest first (at most n of them).
RECURSIVE Up(_, _)
Up(g, n) ==
  IF n = 0 \/ node[g].parent = NULL THEN <<>>
  ELSE <<node[g].parent>> \o Up(fn[node[g].parent].node, n - 1)

Ancestors(g) == {Up(g, Len(fn))[i] : i \in 1..Len(Up(g, Len(fn)))}

\* The loop wrappers a break / continue node k names: the enclosing loops
\* whose body is at the nest of k's control entry.
Targets(k) ==
  {p \in Ancestors(k) :
     /\ tree[Payload(fn[p].node)].type \in {"NWHILE", "NUNTIL"}
     /\ \E i \in 1..Len(node[k].files0) :
          /\ node[k].files0[i].name = NoName
          /\ node[k].files0[i].name_size = node[fn[p].node].nest + 1}

\* The break node k was taken by dg_graph_run and processed.
BreakProcessed(k) ==
  /\ Removed(k) /\ ~IsWrap(node[k].command)
  /\ ctype[node[k].command] = "NBREAK"
  /\ "CANCELLED" \notin node[k].flag

\* C26: once a break has been processed, the loop wrapper it names has
\* kind simple, and no step creates a child under that wrapper any more.
C26_BreakEndsLoop ==
  /\ [](Running =>
          \A k \in Nodes :
            BreakProcessed(k) => \A p \in Targets(k) : fn[p].type = "DG_NCMD")
  /\ [][\A k \in Nodes :
          (BreakProcessed(k) /\ fault' = "") =>
            \A p \in Targets(k) : NewChildren(p) = {}]_vars

\* A test of the second turn was in flight when break was processed and
\* has completed with status 0 since: the while wrapper is simple and has
\* no child of a third turn.
C26_LateTest ==
  /\ Running
  /\ \E k \in Nodes :
       /\ BreakProcessed(k)
       /\ \E p \in Targets(k) :
            /\ fn[p].type = "DG_NCMD"
            /\ tree[Payload(fn[p].node)].type = "NWHILE"
            /\ \E f \in Fns :
                 /\ fn[f].st = "freed" /\ fn[f].status = 0
                 /\ fn[f].node \in finished
                 /\ node[fn[f].node].parent = p
                 /\ "TEST_STATUS" \in node[fn[f].node].flag0
                 /\ node[fn[f].node].iteration = 1
            /\ \A c \in Children(p) : node[c].iteration <= 1
            /\ \A c \in Children(p) :
                 node[c].iteration = 1 => IsTestNode(node[c].flag0)

\* The target nest of the control entry of the continue / break node k
\* (0 when it has none).
TargetNest(k) ==
  IF \E i \in 1..Len(node[k].files0) : node[k].files0[i].name = NoName
  THEN node[k].files0[CHOOSE i \in 1..Len(node[k].files0) :
                        node[k].files0[i].name = NoName].name_size
  ELSE 0

\* The iteration of the graph node g at nest t.
IterAt(g, t) == node[NestWalk(Pack("stale"), g, t)].iteration

InScope(k, g) ==
  /\ node[g].nest >= TargetNest(k)
  /\ Ancestors(g) \cap Targets(k) # {}
  /\ IF ctype[node[k].command] = "NCONT"
     THEN IterAt(g, TargetNest(k)) = IterAt(k, TargetNest(k))
     ELSE IterAt(g, TargetNest(k)) >= IterAt(k, TargetNest(k))

\* The nodes that wait behind k: the dependents of k and of the nodes of
\* the wrappers around k, and the dependents of the nodes in scope among
\* them, and so on (n rounds).
RECURSIVE Behind(_, _, _)
Behind(k, S, n) ==
  IF n = 0 THEN S
  ELSE Behind(k, S \cup UNION {DepSet(g) : g \in {x \in S : InScope(k, x)}},
              n - 1)

WaitsBehind(k) ==
  Behind(k, DepSet(k) \cup UNION {DepSet(fn[p].node) : p \in Ancestors(k)},
         Len(node))

C28_KeepsTheRest ==
  [][\A k \in Nodes :
       (/\ Live(k) /\ node'[k].st = "freed" /\ fault' = ""
        /\ run_next \in Fns /\ fn[run_next].node = k /\ nrun' # nrun
        /\ ~IsWrap(node[k].command)
        /\ ctype[node[k].command] \in {"NCONT", "NBREAK"}
        /\ "CANCELLED" \notin node[k].flag
        /\ TargetNest(k) > 0) =>
         \A p \in Ancestors(k) :
           node'[fn[p].node].st = "live" =>
             \A d \in DepSet(fn[p].node) :
               (node'[d].st = "live" /\ "CANCELLED" \notin node'[d].flag) =>
                 /\ \E i \in 1..node'[fn[p].node].dlive :
                      node'[fn[p].node].dependents[i] = d
                 /\ node'[d].dependencies = node[d].dependencies]_vars

\* The wrapper p was made for a while / until command.
OfLoop(p) ==
  /\ ~IsWrap(node[fn[p].node].command)
  /\ ctype[node[fn[p].node].command] \in {"NWHILE", "NUNTIL"}

\* C29: a graph node created in a step has the iteration of its nearest
\* enclosing loop wrapper (0 when no loop encloses the node): a value the
\* loop's counter had while the step ran or, when the direct parent is an
\* if / and / or wrapper inside the loop, the iteration of the loop's child
\* the node is created under.
C29_IterationOfLoop ==
  [][\A g \in (Len(node) + 1)..Len(node') :
       LET ups == (Up(g, Len(fn)))'
           loops == {i \in 1..Len(ups) : \E p \in 1..Len(fn') :
                                            p = ups[i] /\ OfLoop(p)'}
       IN  IF loops = {} THEN node'[g].iteration = 0
           ELSE LET m == CHOOSE i \in loops : \A j \in loops : i <= j
                    l == ups[m]
                    lo == IF l <= Len(fn) THEN fn[l].iteration ELSE 0
                IN  \/ /\ lo <= node'[g].iteration
                       /\ node'[g].iteration <= fn'[l].iteration
                    \/ /\ m > 1
                       /\ node'[g].iteration =
                            node'[fn'[ups[m - 1]].node].iteration]_vars

\* The wrapper f of a body child that reports the body's status to a loop
\* wrapper is removed in this step, and the child was not cancelled.
BodyReports(f) ==
  /\ fn[f].st = "live" /\ fn'[f].st = "freed"
  /\ node[fn[f].node].st = "live"
  /\ "BODY_STATUS" \in node[fn[f].node].flag
  /\ "CANCELLED" \notin node[fn[f].node].flag
  /\ node[fn[f].node].parent # NULL
  /\ fn[node[fn[f].node].parent].st = "live"
  /\ IsLoopType(fn[node[fn[f].node].parent].type)

\* C30: when the body child of a loop wrapper that carries BODY_STATUS
\* completes without having been cancelled, the loop wrapper's status is the
\* child's exit status afterwards.
C30_BodyStatusRelay ==
  [][\A f \in Fns :
       (BodyReports(f) /\ fault' = "") =>
         LET p == node[fn[f].node].parent
         IN  fn'[p].st = "live" => fn'[p].status = fn'[f].status]_vars

\* The wrapper f of a child that reports a status is removed in this step
\* and with it its parent wrapper, whose node is itself the test child that
\* reports to an enclosing construct.
InnerTestEnds(f) ==
  /\ fn[f].st = "live" /\ fn'[f].st = "freed"
  /\ f \in inflight
  /\ node[fn[f].node].st = "live"
  /\ node[fn[f].node].flag \cap {"TEST_STATUS", "BODY_STATUS"} # {}
  /\ "CANCELLED" \notin node[fn[f].node].flag
  /\ node[fn[f].node].parent # NULL
  /\ LET p == node[fn[f].node].parent
     IN  /\ fn[p].st = "live" /\ fn'[p].st = "freed"
         /\ "TEST_STATUS" \in node[fn[p].node].flag
         /\ "CANCELLED" \notin node[fn[p].node].flag
         /\ node[fn[p].node].parent # NULL

\* C31: when a compound node is the status-reporting test child of an
\* enclosing construct and is removed because its last executed child
\* completed, the status the inner wrapper is removed with is the exit
\* status of that child.
C31_NestedStatus ==
  [][\A f \in Fns :
       (InnerTestEnds(f) /\ fault' = "") =>
         fn'[node[fn[f].node].parent].status = fn'[f].status]_vars

\* The commands of the tree n in source order, a ; taken apart.
RECURSIVE Flat(_)
Flat(n) ==
  IF n = NULL THEN <<>>
  ELSE IF AST[n].type = "NSEMI"
       THEN Flat(AST[n].ch1) \o Flat(AST[n].ch2)
       ELSE <<n>>

\* The children created in this step under the wrapper p, oldest first.
NewInOrder(p) ==
  [i \in 1..Cardinality(NewChildren(p)) |->
     CHOOSE x \in NewChildren(p) :
       Cardinality({y \in NewChildren(p) : y < x}) = i - 1]

\* The expansions dg_frontier_node_proc / dg_frontier_parent_proc can make
\* under the wrapper p in one step: the test of a wrapper put on the
\* frontier in this step, one branch of an && / || / if, or the body and
\* then the test of a loop.
Expansions(p) ==
  LET c == node'[fn'[p].node].command
      T == [t |-> AST[c].ch1, k |-> "TEST_CMD"]
      B == [t |-> AST[c].ch2, k |-> "BODY_CMD"]
      E == [t |-> AST[c].ch3, k |-> "BODY_CMD"]
  IN  IF p > Len(fn) THEN {<<T>>}
      ELSE IF fn[p].type \in {"DG_NWHILE", "DG_NUNTIL"} THEN {<<B, T>>}
      ELSE IF fn[p].type = "DG_NIF" THEN {<<B>>, <<E>>}
      ELSE {<<B>>}

\* What the children of the expansions e are expected to be: the command
\* and, for the last child of each expansion, the relay flag; last_test is
\* the set of flags of the last test child.
RECURSIVE Expected(_, _)
Expected(e, last_test) ==
  IF e = <<>> THEN <<>>
  ELSE LET l == Flat(Head(e).t)
       IN  [i \in 1..Len(l) |->
              [cmd |-> l[i],
               flag |-> IF i < Len(l) THEN {Head(e).k}
                        ELSE IF Head(e).k = "TEST_CMD" THEN last_test
                        ELSE {"BODY_STATUS"}]]
           \o Expected(Tail(e), last_test)

\* The step expands command lists under wrappers as Expected says: one
\* child per command in source order, each counted once in the wrapper's
\* active count, the relay flag on the last child of an expansion only.
ExpandsAs(last_test) ==
  \A p \in 1..Len(fn') :
    (NewChildren(p) # {} /\ fault' = "" /\ fn'[p].st = "live") =>
      /\ \E e \in Expansions(p) :
           LET x == Expected(e, last_test)
               n == NewInOrder(p)
           IN  /\ Len(n) = Len(x)
               /\ \A i \in 1..Len(x) :
                    /\ Unwrap(node'[n[i]].command) = x[i].cmd
                    /\ node'[n[i]].flag0 = x[i].flag
      /\ fn'[p].active =
           (IF p > Len(fn) THEN 0 ELSE fn[p].active)
           + Cardinality(NewChildren(p))
           - Cardinality({g \in Nodes : /\ node[g].parent = p /\ Live(g)
                                        /\ node'[g].st = "freed"})

Listings(g, d) ==
  Cardinality({i \in 1..node[g].dlive : node[g].dependents[i] = d})

\* C33: a step in which a command completes and its node is the only one
\* removed, no node being created, takes one blocker from each dependent
\* of the node, once, and puts on the frontier exactly the dependents whose
\* count reaches zero; and over any execution a graph node is put on the
\* frontier at most once.
C33_RemoveReleases ==
  /\ [](\A g \in Nodes : node[g].enq <= 1)
  /\ [][\A f \in inflight :
          (/\ fn'[f].st = "freed" /\ fault' = ""
           /\ "CANCELLED" \notin node[fn[f].node].flag
           /\ node[fn[f].node].dlive = Len(node[fn[f].node].dependents)
           /\ Len(node') = Len(node)
           /\ \A x \in Nodes :
                (Live(x) /\ node'[x].st = "freed") => x = fn[f].node) =>
            /\ \A d \in DepSet(fn[f].node) :
                 /\ Listings(fn[f].node, d) = 1
                 /\ node'[d].dependencies = node[d].dependencies - 1
                 /\ node'[d].enq = node[d].enq
                      + (IF node'[d].dependencies = 0 THEN 1 ELSE 0)
            /\ \A d \in Nodes \ DepSet(fn[f].node) :
                 /\ node'[d].enq = node[d].enq
                 /\ node'[d].dependencies = node[d].dependencies]_vars

\* C34: when the EOF sentinel has been handed out, no submitted work is left
\* behind: every graph node ever created has been removed, so that no live
\* node remains, blocked or not.
C34_NothingLeftAtEof ==
  (Running /\ ndeliv > 0) => \A g \in Nodes : Removed(g)

\* C35: the cursor invariant.  run_next is NULL, the EOF sentinel or an
\* allocated wrapper linked in the frontier list; the wrappers before it in
\* the list have been handed out and the wrappers from it onward have not;
\* the head and the tail of the list are allocated wrappers, the tail the
\* last one linked.
C35_Cursor ==
  Running =>
    LET l == FrontierList
        at == {i \in 1..Len(l) : l[i] = run_next}
    IN  /\ \A i \in 1..Len(l) : fn[l[i]].st = "live"
        /\ run_next \in {NULL, EOFS} \/ at # {}
        /\ \A i \in 1..Len(l) :
             IF \E k \in at : k <= i THEN fn[l[i]].run = 0
             ELSE fn[l[i]].run > 0
        /\ IF l = <<>> THEN tail = NULL ELSE tail = l[Len(l)]

\* C36: no child graph node is ever created under the wrapper of a node
\* that is flagged cancelled, and no command whose parent node is flagged
\* cancelled is handed to a worker.
C36_NoChildOfCancelled ==
  /\ [][\A g \in (Len(node) + 1)..Len(node') :
          (fault' = "" /\ node'[g].parent # NULL) =>
            "CANCELLED" \notin node'[fn'[node'[g].parent].node].flag]_vars
  /\ [](Running =>
          \A g \in started :
            node[g].parent # NULL =>
              "CANCELLED" \notin node[fn[node[g].parent].node].flag)

\* The control entries a command tree n contributes, in source order, for a
\* graph node of nest d, n standing inside depth loops of the node's own
\* tree: continue N / break N names the nest max(1, d - (N - 1)) unless it
\* is inside at least N loops of the tree.
RECURSIVE CtlTargets(_, _, _)
CtlTargets(n, depth, d) ==
  IF n = NULL THEN <<>>
  ELSE LET t == AST[n] IN
    CASE t.type = "NCMD" ->
           IF t.text \in {"continue", "break"}
           THEN LET N == IF t.narg = 0 THEN 1 ELSE t.narg
                IN  IF depth >= N THEN <<>>
                    ELSE <<[kind |-> IF t.text = "continue" THEN "CONTINUE"
                                     ELSE "BREAK",
                            nest |-> Max(1, d - (N - 1))]>>
           ELSE <<>>
      [] t.type \in {"NAND", "NOR", "NSEMI"} ->
           CtlTargets(t.ch1, depth, d) \o CtlTargets(t.ch2, depth, d)
      [] t.type \in {"NWHILE", "NUNTIL"} ->
           CtlTargets(t.ch1, depth + 1, d) \o CtlTargets(t.ch2, depth + 1, d)
      [] t.type = "NIF" ->
           CtlTargets(t.ch1, depth, d) \o CtlTargets(t.ch2, depth, d)
             \o CtlTargets(t.ch3, depth, d)
      [] OTHER -> <<>>

\* The control entries of a footprint, in order.
RECURSIVE CtlEntries(_)
CtlEntries(files) ==
  IF files = <<>> THEN <<>>
  ELSE (IF Head(files).name = NoName
        THEN <<[kind |-> Head(files).flag, nest |-> Head(files).name_size]>>
        ELSE <<>>) \o CtlEntries(Tail(files))

\* C37: the control entries of the footprint a graph node of nest d is
\* created with are those of the continue N / break N commands of its tree
\* that are not inside at least N loops of the tree, one entry each, with
\* target nest max(1, d - (N - 1)) and N = 1 without argument.
C37_ControlEntry ==
  Running =>
    \A g \in Nodes :
      CtlEntries(node[g].files0)
        = CtlTargets(Unwrap(node[g].command), 0, node[g].nest)

\* A break 2 in the body of the inner of two loops is a node of nest 2 and
\* names nest 1; the node of the inner loop, of nest 1, holds the break 2
\* inside one loop of its tree and names nest 1 as well; the node of the
\* outer loop holds it inside two loops and has no control entry.
C37_BreakTwoInTwoLoops ==
  /\ Running
  /\ \E g \in Nodes :
       /\ node[g].nest = 2 /\ ~IsWrap(node[g].command)
       /\ AST[node[g].command].text = "break"
       /\ AST[node[g].command].narg = 2
       /\ CtlEntries(node[g].files0) = <<[kind |-> "BREAK", nest |-> 1]>>
  /\ \E g \in Nodes :
       /\ node[g].nest = 1 /\ ~IsWrap(node[g].command)
       /\ AST[node[g].command].type = "NWHILE"
       /\ CtlEntries(node[g].files0) = <<[kind |-> "BREAK", nest |-> 1]>>
  /\ \E g \in Nodes :
       /\ node[g].nest = 0 /\ ~IsWrap(node[g].command)
       /\ AST[node[g].command].type = "NWHILE"
       /\ arg_marks(node[g].command) # {}
       /\ CtlEntries(node[g].files0) = <<>>

\* C38: the footprint a graph node is created with, when its command is a
\* background or redirection wrapper, is the footprint of the inner command
\* followed by an entry for each redirection of the wrapper itself (the
\* wrapper node_wrap_nbackgnd makes has none); hence a later command that
\* reads a file the wrapper writes is not handed out before the wrapper's
\* node is removed.
C38_WrapperFootprint ==
  Running =>
    /\ \A g \in Nodes :
         /\ IsWrap(node[g].command) =>
              node[g].files0
                = dg_node_files(Inner(node[g].command), 0, node[g].nest)
         /\ (~IsWrap(node[g].command)
             /\ AST[node[g].command].type = "NREDIR") =>
              node[g].files0
                = dg_node_files(AST[node[g].command].ch1, 0, node[g].nest)
                    \o dg_file_reg(AST[node[g].command].redirect)
    /\ \A a, b \in Nodes :
         (/\ a < b /\ TopLevel(a) /\ TopLevel(b)
          /\ ~IsWrap(node[a].command)
          /\ AST[node[a].command].type = "NREDIR"
          /\ WriteConflict(dg_file_reg(AST[node[a].command].redirect),
                           node[b].files0)
          /\ b \in started)
         => Removed(a)

\* The states linked from the state i onward, following next (at most n).
RECURSIVE StatesFrom(_, _)
StatesFrom(i, n) ==
  IF i = NULL \/ n = 0 THEN <<>>
  ELSE <<i>> \o StatesFrom(vs.state[i].next, n - 1)

\* The states create_state was called for with the name nm, oldest first.
RECURSIVE MadeFor(_, _)
MadeFor(nm, i) ==
  IF i > Len(vs.state) THEN <<>>
  ELSE (IF vs.state[i].made_for = nm THEN <<i>> ELSE <<>>)
       \o MadeFor(nm, i + 1)

\* C39: every variable is listed once, in the bucket of its name; its
\* state list, from head to tail, holds the states created for its name
\* and no other, in creation order, also when another variable is in the
\* same bucket.
C39_StatesOfTheirVariable ==
  vs.fault = "" =>
    /\ \A v, w \in 1..Len(vs.var) :
         vs.var[v].name = vs.var[w].name => v = w
    /\ \A i \in 1..Len(vs.state) :
         \E v \in 1..Len(vs.var) : vs.var[v].name = vs.state[i].made_for
    /\ \A v \in 1..Len(vs.var) :
         /\ findvar(vs, vs.vartab[hashstate(vs.var[v].name)],
                    vs.var[v].name) = v
         /\ StatesFrom(vs.var[v].head, Len(vs.state))
              = MadeFor(vs.var[v].name, 1)
         /\ vs.var[v].tail
              = MadeFor(vs.var[v].name, 1)[Len(MadeFor(vs.var[v].name, 1))]

\* C40: a call of read_state with a name that no variable has returns NULL
\* and does not stop the process; with the name of a variable it returns
\* the state created last for that name.
C40_ReadState ==
  [][(Len(vs'.state) = Len(vs.state) /\ vs' # vs) =>
       LET made == MadeFor(vs'.arg, 1)
       IN  /\ vs'.fault = ""
           /\ vs'.ret = IF \A v \in 1..Len(vs.var) : vs.var[v].name # vs'.arg
                        THEN NULL
                        ELSE made[Len(made)]]_vars

====
